---------------------------- MODULE Spec2Model ----------------------------
(***************************************************************************)
(* Image lifecycle reconciliation of terraform-ecr-build-push-image:       *)
(* the Create / Read / Update / Delete handlers of the resource            *)
(* ecrbuildpush_aws_ecr_push_image (src/internals/resource_push_image.go)  *)
(* and the helpers they call (src/internals/utils.go and its SDK revision  *)
(* src/unnamed/part_001), run against an ECR registry, a local Docker      *)
(* daemon and a Dockerfile on disk.                                        *)
(*                                                                         *)
(* Every helper call of a handler is one step of the model, so that the    *)
(* order of the side effects and every early return is visible.            *)
(***************************************************************************)
EXTENDS Naturals, Sequences, FiniteSets, TLC

(***************************************************************************)
(* Bounds of the model.                                                    *)
(***************************************************************************)
NumTags == 2
NumContents == 2

TagNames == <<"v1", "v2", "v3">>
ContentNames == <<"A", "B", "C">>

Tags == {TagNames[i] : i \in 1..NumTags}
Contents == {ContentNames[i] : i \in 1..NumContents}

Repos == {"repo-1"}
UtilsRevisions == {"utils.go", "part_001"}

NoTag == "absent"
NoImage == "noimage"
Nil == "nil"
Fault == "fault"
RepoMissingErr == "repository does not exist"
NoImageFoundErr == "no image found"

(***************************************************************************)
(* The image a build of Dockerfile content c produces, named by the        *)
(* manifest the registry stores for it once pushed.                        *)
(***************************************************************************)
ManifestOf(c) == "manifest-" \o c

Manifests == {ManifestOf(c) : c \in Contents}

VARIABLES
  utilsRev,     \* which revision of the helper file is compiled in
  registry,     \* ECR: per repository its existence, mutability and tags
  dockerfile,   \* bytes of <dockerfile_path>/Dockerfile
  localImages,  \* local Docker image store: reference -> image
  state,        \* resource state persisted by Terraform between calls
  d,            \* schema.ResourceData of the running call
  op,           \* the lifecycle handler that runs or ran last
  pc,           \* position inside the handler
  result,       \* outcome of the handler: "running", "ok" or an error kind
  log,          \* helper calls issued by the running call, in order
  faulted,      \* a helper of the running call failed for a transport reason
  atStart,      \* the environment as it was when the running call began
  local,        \* local variables of the handler that outlive one helper call
  prev          \* summary of the call before this one (no registry change since)

vars == <<utilsRev, registry, dockerfile, localImages, state, d,
          op, pc, result, log, faulted, atStart, local, prev>>

envVars == <<registry, dockerfile>>

----------------------------------------------------------------------------
(***************************************************************************)
(* Values.                                                                 *)
(***************************************************************************)
RepoName == "repo-1"
ImageName == "promtail"
AwsRegion == "eu-central-1"
AwsAccountId == "acct"

EmptyTags == [t \in Tags |-> NoTag]

NoCall == [op |-> "none", result |-> "none", newTag |-> "", faulted |-> FALSE]

\* The pairs (call before, call) some property speaks about; the summary of
\* the call before is dropped when a call of another kind begins.
FollowUps == {<<"Read", "Read">>, <<"Delete", "Read">>, <<"Update", "Update">>}

NoStart == [registry |-> [r \in Repos |-> [exists |-> FALSE, mutable |-> FALSE,
                                            tags |-> EmptyTags]],
            dockerfile |-> ""]

\* ctxDone: the ctx of the handler was cancelled (or its deadline passed)
\* while the handler was in pushDockerImage.
NoLocals == [dockerStatus |-> FALSE, repoMutability |-> FALSE, imageManifest |-> "",
             ctxDone |-> FALSE]

\* requiresNew: the diff marked the resource as to be replaced (ForceNew).
EmptyData == [id |-> "", ecr_repository_name |-> RepoName, image_tag |-> "",
              oldTag |-> "", dockerfile_hash |-> "", oldHash |-> "",
              requiresNew |-> FALSE]

TagExists(repo, t) == registry[repo].exists /\ registry[repo].tags[t] # NoTag

Immutable(repo) == registry[repo].exists /\ ~registry[repo].mutable

(***************************************************************************)
(* One entry of the call log: the helper, the tag it targets ("" if none)  *)
(* and, for a registry write, whether the target tag existed in an         *)
(* IMMUTABLE repository at the moment of the call.                         *)
(***************************************************************************)
Call(fn, t) == [fn |-> fn, tag |-> t,
                onExistingImmutable |-> t \in Tags /\ TagExists(RepoName, t)
                                                   /\ Immutable(RepoName)]

Logged(fn) == \E i \in 1..Len(log) : log[i].fn = fn

----------------------------------------------------------------------------
(***************************************************************************)
(* Helpers (utils).  Each returns what the Go function returns, as a       *)
(* record [out, err]; flt says that the underlying command or API call     *)
(* failed for a reason of its own (daemon, network, credentials).          *)
(***************************************************************************)

\* sha256 + hex of the file content: a digest string, one per content.
Sha256Hex(content) == "sha256-" \o content

\* os.ReadFile fails (flt) when the file is missing or unreadable.
getDockerfileHash(flt) ==
  IF flt THEN [out |-> "", err |-> Fault]
  ELSE [out |-> Sha256Hex(dockerfile), err |-> Nil]

\* utils.go: the loop over describe-repositories falls through to an error.
repoExists_cli(repo, flt) ==
  IF flt THEN [out |-> FALSE, err |-> Fault]
  ELSE IF registry[repo].exists THEN [out |-> TRUE, err |-> Nil]
  ELSE [out |-> FALSE, err |-> RepoMissingErr]

\* part_001: RepositoryNotFoundException is turned into (false, nil).
repoExists_sdk(repo, flt) ==
  IF flt THEN [out |-> FALSE, err |-> Fault]
  ELSE [out |-> registry[repo].exists, err |-> Nil]

repoExists(repo, flt) ==
  IF utilsRev = "utils.go" THEN repoExists_cli(repo, flt)
  ELSE repoExists_sdk(repo, flt)

\* An imageTagExist that compares nothing and reports every tag as present.
imageTagExist_alwaysFound(t, repo, flt) ==
  IF flt \/ ~registry[repo].exists THEN [out |-> FALSE, err |-> Fault]
  ELSE [out |-> TRUE, err |-> Nil]

\* list-images fails on a missing repository; otherwise membership.
imageTagExist(t, repo, flt) ==
  IF flt \/ ~registry[repo].exists THEN [out |-> FALSE, err |-> Fault]
  ELSE [out |-> registry[repo].tags[t] # NoTag, err |-> Nil]

isMutable(repo, flt) ==
  IF flt \/ ~registry[repo].exists THEN [out |-> FALSE, err |-> Fault]
  ELSE [out |-> registry[repo].mutable, err |-> Nil]

\* utils.go: the text output of batch-get-image, empty when no image has
\* the tag (the command still exits with 0).
getImageManifest_cli(repo, t, flt) ==
  IF flt \/ ~registry[repo].exists THEN [out |-> "", err |-> Fault]
  ELSE IF registry[repo].tags[t] = NoTag THEN [out |-> "", err |-> Nil]
  ELSE [out |-> registry[repo].tags[t], err |-> Nil]

\* part_001: an empty Images list is an error.
getImageManifest_sdk(repo, t, flt) ==
  IF flt \/ ~registry[repo].exists THEN [out |-> "", err |-> Fault]
  ELSE IF registry[repo].tags[t] = NoTag THEN [out |-> "", err |-> NoImageFoundErr]
  ELSE [out |-> registry[repo].tags[t], err |-> Nil]

getImageManifest(repo, t, flt) ==
  IF utilsRev = "utils.go" THEN getImageManifest_cli(repo, t, flt)
  ELSE getImageManifest_sdk(repo, t, flt)

\* utils.go: docker ps fails when the daemon is down (up: the daemon answers).
isDockerDRunning_cli(up) == IF up THEN [out |-> TRUE, err |-> Nil]
                            ELSE [out |-> FALSE, err |-> Fault]

\* part_001: a failed Ping is (false, nil).
isDockerDRunning_sdk(up) == [out |-> up, err |-> Nil]

isDockerDRunning(up) ==
  IF utilsRev = "utils.go" THEN isDockerDRunning_cli(up) ELSE isDockerDRunning_sdk(up)

(***************************************************************************)
(* References (resource_push_image.go:57 and :103-105).                    *)
(***************************************************************************)
imageNameAndTag(t) == ImageName \o ":" \o t

ecrUri == AwsAccountId \o ".dkr.ecr." \o AwsRegion \o ".amazonaws.com"

ecrUriWithRepo(repo) == ecrUri \o "/" \o repo

ecrUriWithTag(repo, t) == ecrUriWithRepo(repo) \o ":" \o t

Refs == {imageNameAndTag(t) : t \in Tags}
          \cup {ecrUriWithTag(r, t) : r \in Repos, t \in Tags}

NoLocalImages == [r \in Refs |-> NoImage]

\* The registry refuses to re-point an existing tag of an IMMUTABLE repository.
RegistryRejects(repo, t) ==
  ~registry[repo].exists \/ (~registry[repo].mutable /\ registry[repo].tags[t] # NoTag)

WithTag(repo, t, m) ==
  [registry EXCEPT ![repo].tags[t] = m]

getAWSAccountID(flt) ==
  IF flt THEN [out |-> "", err |-> Fault] ELSE [out |-> AwsAccountId, err |-> Nil]

\* docker build -t ref path.
buildDockerImage(ref, flt) ==
  IF flt
  THEN [err |-> Fault, images |-> localImages]
  ELSE [err |-> Nil, images |-> [localImages EXCEPT ![ref] = ManifestOf(dockerfile)]]

\* docker tag src dst.
tagDockerImage(src, dst, flt) ==
  IF flt \/ localImages[src] = NoImage
  THEN [err |-> Fault, images |-> localImages]
  ELSE [err |-> Nil, images |-> [localImages EXCEPT ![dst] = localImages[src]]]

\* An Upload that reports success without having sent anything.
Upload_nothingSent(ref, repo, t, flt) ==
  IF flt \/ localImages[ref] = NoImage \/ RegistryRejects(repo, t)
  THEN [err |-> Fault, registry |-> registry]
  ELSE [err |-> Nil, registry |-> registry]

\* docker push ref: the upload fails (flt), or the tag of the repository
\* now names the local image ref.
Upload(ref, repo, t, flt) ==
  IF flt \/ localImages[ref] = NoImage \/ RegistryRejects(repo, t)
  THEN [err |-> Fault, registry |-> registry]
  ELSE [err |-> Nil, registry |-> WithTag(repo, t, localImages[ref])]

\* utils.go: docker push is started before the login command is run and does
\* not wait for it; a failed login (authFlt) is reported after the push has
\* run with the credentials the daemon already had.
pushDockerImage_cli(ref, repo, t, authFlt, flt) ==
  LET up == Upload(ref, repo, t, flt)
  IN [err |-> IF authFlt THEN Fault ELSE up.err, registry |-> up.registry]

\* part_001 (and part_002): the token is fetched first, a failure returns
\* before ImagePush is called.
pushDockerImage_sdk(ref, repo, t, authFlt, flt) ==
  IF authFlt THEN [err |-> Fault, registry |-> registry]
  ELSE Upload(ref, repo, t, flt)

pushDockerImage(ref, repo, t, authFlt, flt) ==
  IF utilsRev = "utils.go" THEN pushDockerImage_cli(ref, repo, t, authFlt, flt)
  ELSE pushDockerImage_sdk(ref, repo, t, authFlt, flt)

\* An updateImageTag that reports success without having published anything.
updateImageTag_notPublished(imageManifest, repo, newImageTag, flt) ==
  IF flt \/ imageManifest \notin Manifests \/ RegistryRejects(repo, newImageTag)
  THEN [err |-> Fault, registry |-> registry]
  ELSE [err |-> Nil, registry |-> registry]

\* put-image: publish manifest under newImageTag.
updateImageTag(imageManifest, repo, newImageTag, flt) ==
  IF flt \/ imageManifest \notin Manifests \/ RegistryRejects(repo, newImageTag)
  THEN [err |-> Fault, registry |-> registry]
  ELSE [err |-> Nil, registry |-> WithTag(repo, newImageTag, imageManifest)]

\* A deleteImage that reports success and leaves the tag in place.
deleteImage_keepsTag(repo, t, flt) ==
  IF flt \/ ~registry[repo].exists
  THEN [err |-> Fault, registry |-> registry]
  ELSE [err |-> Nil, registry |-> registry]

\* batch-delete-image: a tag that is not there is reported in the response
\* body only, which the helper does not look at.
deleteImage(repo, t, flt) ==
  IF flt \/ ~registry[repo].exists
  THEN [err |-> Fault, registry |-> registry]
  ELSE [err |-> Nil, registry |-> WithTag(repo, t, NoTag)]

\* The kind of a failed registry query.
RegistryErrorKind(err) ==
  IF err = RepoMissingErr THEN "RepositoryNotFound" ELSE "RegistryUnreachable"

----------------------------------------------------------------------------
(***************************************************************************)
(* Initial state: no resource yet; the registry and the Dockerfile are in  *)
(* any state.                                                              *)
(***************************************************************************)
Init ==
  /\ utilsRev \in UtilsRevisions
  /\ registry \in [Repos -> [exists : BOOLEAN, mutable : BOOLEAN,
                              tags : {EmptyTags}]]
  /\ dockerfile \in Contents
  /\ localImages = NoLocalImages
  /\ state = [id |-> "", image_tag |-> TagNames[1], dockerfile_hash |-> ""]
  /\ d = EmptyData
  /\ op = "none"
  /\ pc = "idle"
  /\ result = "none"
  /\ log = <<>>
  /\ faulted = FALSE
  /\ atStart = NoStart
  /\ local = NoLocals
  /\ prev = NoCall

----------------------------------------------------------------------------
(***************************************************************************)
(* The environment: other actors change the registry, the Dockerfile is    *)
(* edited (the daemon's answer and a failing read of the file are inputs   *)
(* of the steps that ask).  Registry changes happen between the            *)
(* calls of the resource (Terraform serialises the calls of one resource); *)
(* they end the "no registry change since" summary of the previous call.   *)
(***************************************************************************)
EnvRegistryChange(repo) ==
  /\ pc = "idle"
  /\ \/ \E t \in Tags, m \in Manifests :
          /\ ~RegistryRejects(repo, t)
          /\ registry[repo].tags[t] # m
          /\ registry' = WithTag(repo, t, m)
     \/ \E t \in Tags :
          /\ TagExists(repo, t)
          /\ registry' = WithTag(repo, t, NoTag)
     \/ /\ registry[repo].exists
        /\ registry' = [registry EXCEPT ![repo].exists = FALSE,
                                        ![repo].tags = EmptyTags]
     \/ /\ ~registry[repo].exists
        /\ \E mut \in BOOLEAN :
             registry' = [registry EXCEPT ![repo].exists = TRUE,
                                          ![repo].mutable = mut]
     \/ /\ registry[repo].exists
        /\ registry' = [registry EXCEPT ![repo].mutable = ~registry[repo].mutable]
  /\ prev' = NoCall
  /\ UNCHANGED <<atStart, local, utilsRev, dockerfile, localImages, state, d, op,
                 pc, result, log, faulted>>

EnvEditDockerfile ==
  /\ pc = "idle"
  /\ \E c \in Contents :
       /\ c # dockerfile
       /\ dockerfile' = c
  /\ UNCHANGED <<atStart, local, utilsRev, registry, localImages, state, d, op,
                 pc, result, log, faulted, prev>>

----------------------------------------------------------------------------
(***************************************************************************)
(* Terraform invoking a handler, and persisting what the handler left in   *)
(* the ResourceData once it returned.                                      *)
(***************************************************************************)
Begin(o, data, first) ==
  /\ pc = "idle"
  /\ op' = o
  /\ d' = data
  /\ pc' = first
  /\ result' = "running"
  /\ log' = <<>>
  /\ faulted' = FALSE
  /\ local' = NoLocals
  /\ atStart' = [registry |-> registry, dockerfile |-> dockerfile]
  /\ prev' = IF <<prev.op, o>> \in FollowUps THEN prev ELSE NoCall
  /\ UNCHANGED <<utilsRev, registry, dockerfile, localImages, state>>

\* A handler step that issues helper fn against tag t and goes on, or returns.
Goto(next) == pc' = next /\ result' = "running"

Return(res) == pc' = "done" /\ result' = res

Issue(fn, t, flt) ==
  /\ log' = Append(log, Call(fn, t))
  /\ faulted' = (faulted \/ flt)

StartCreate(t) ==
  /\ state.id = ""
  /\ Begin("Create", [EmptyData EXCEPT !.image_tag = t], "diff")

\* Terraform refreshes a resource it has in its state; a resource whose id
\* the call before has just cleared is read once more (refresh after destroy).
StartRead ==
  /\ state.id # "" \/ prev.op \in {"Delete", "Read"}
  /\ Begin("Read", [EmptyData EXCEPT !.id = state.id,
                                  !.image_tag = state.image_tag,
                                  !.oldTag = state.image_tag,
                                  !.dockerfile_hash = state.dockerfile_hash,
                                  !.oldHash = state.dockerfile_hash], "r_repo")

StartUpdate(newTag) ==
  /\ state.id # ""
  /\ Begin("Update", [EmptyData EXCEPT !.id = state.id,
                                       !.image_tag = newTag,
                                       !.oldTag = state.image_tag,
                                       !.dockerfile_hash = state.dockerfile_hash,
                                       !.oldHash = state.dockerfile_hash], "diff")

StartDelete ==
  /\ state.id # ""
  /\ Begin("Delete", [EmptyData EXCEPT !.id = state.id,
                                       !.image_tag = state.image_tag,
                                       !.oldTag = state.image_tag,
                                       !.dockerfile_hash = state.dockerfile_hash,
                                       !.oldHash = state.dockerfile_hash], "d_repo")

\* What Terraform stores once the handler returned.  A resource whose id is
\* empty is not in the state (its tag stays known as the configured one).
\* Otherwise the ResourceData the handler left is stored (full); after a
\* failed Update the engine may instead keep what it had stored before.
Persisted(full) ==
  IF d.id = ""
  THEN [id |-> "", image_tag |-> state.image_tag, dockerfile_hash |-> ""]
  ELSE IF full
  THEN [id |-> d.id, image_tag |-> d.image_tag, dockerfile_hash |-> d.dockerfile_hash]
  ELSE state

\* The calls whose outcome a following call is compared with: a refresh, a
\* destroy that succeeded, a retag that stopped at the removal of the old tag.
Remembered ==
  \/ op = "Read"
  \/ op = "Delete" /\ result = "ok"
  \/ op = "Update" /\ result = "DeleteFailed"

Commit ==
  /\ pc = "done"
  /\ \E full \in BOOLEAN :
       /\ ~full => (op = "Update" /\ result # "ok")
       /\ state' = Persisted(full)
  /\ prev' = IF Remembered
             THEN [op |-> op, result |-> result,
                   newTag |-> IF op = "Update" THEN d.image_tag ELSE "",
                   faulted |-> faulted]
             ELSE NoCall
  /\ pc' = "idle"
  /\ localImages' = NoLocalImages
  /\ d' = EmptyData
  /\ op' = "none"
  /\ result' = "none"
  /\ log' = <<>>
  /\ faulted' = FALSE
  /\ local' = NoLocals
  /\ atStart' = NoStart
  /\ UNCHANGED <<utilsRev, registry, dockerfile>>

HasChange_image_tag == d.oldTag # d.image_tag

\* HasChange("dockerfile_hash") that answers yes whatever the plan found.
HasChange_dockerfile_hash_always == TRUE

HasChange_dockerfile_hash == d.oldHash # d.dockerfile_hash

----------------------------------------------------------------------------
(***************************************************************************)
(* customizeDiffForDockerfileChanges: the plan-time diff.                  *)
(***************************************************************************)
customizeDiffForDockerfileChanges ==
  /\ pc = "diff"
  /\ \E flt \in BOOLEAN :
       LET first == IF op = "Create" THEN "c_docker" ELSE "u_begin"
           newHash == getDockerfileHash(flt)
       IN IF d.id = ""
          THEN /\ ~flt
               /\ Goto(first)
               /\ UNCHANGED d
          ELSE IF newHash.err # Nil
          THEN /\ Return("PlanFailed")
               /\ UNCHANGED d
          ELSE /\ Goto(first)
               /\ d' = IF d.oldHash # newHash.out
                       THEN [d EXCEPT !.dockerfile_hash = newHash.out,
                                      !.requiresNew = TRUE]
                       ELSE d
  /\ UNCHANGED <<atStart, local, utilsRev, registry, dockerfile, localImages, state,
                 op, log, faulted, prev>>

----------------------------------------------------------------------------
(***************************************************************************)
(* resourcePushImageRead                                                   *)
(***************************************************************************)
\* Read_repoExists without the d.SetId("") of line 283.
Read_repoExists_idKept ==
  /\ pc = "r_repo"
  /\ \E flt \in BOOLEAN :
       LET r == repoExists(d.ecr_repository_name, flt)
       IN /\ Issue("repoExists", "", flt)
          /\ IF r.err # Nil
             THEN Return(RegistryErrorKind(r.err))
             ELSE IF ~r.out
             THEN Return("ok")
             ELSE Goto("r_tag")
  /\ UNCHANGED <<atStart, local, utilsRev, registry, dockerfile, localImages, state, d, op, prev>>

Read_repoExists ==
  /\ pc = "r_repo"
  /\ \E flt \in BOOLEAN :
       LET r == repoExists(d.ecr_repository_name, flt)
       IN /\ Issue("repoExists", "", flt)
          /\ IF r.err # Nil
             THEN Return(RegistryErrorKind(r.err)) /\ UNCHANGED d
             ELSE IF ~r.out
             THEN Return("ok") /\ d' = [d EXCEPT !.id = ""]
             ELSE Goto("r_tag") /\ UNCHANGED d
  /\ UNCHANGED <<atStart, local, utilsRev, registry, dockerfile, localImages, state, op, prev>>

\* Read_imageTagExist with the strictness of Delete: a missing tag of a
\* resource whose id is already empty is an error.
Read_imageTagExist_strictWhenEmpty ==
  /\ pc = "r_tag"
  /\ \E flt \in BOOLEAN :
       LET r == imageTagExist(d.image_tag, d.ecr_repository_name, flt)
       IN /\ Issue("imageTagExist", d.image_tag, flt)
          /\ IF r.err # Nil
             THEN Return("RegistryUnreachable") /\ UNCHANGED d
             ELSE IF ~r.out /\ d.id = ""
             THEN Return("TagNotFound") /\ UNCHANGED d
             ELSE IF ~r.out
             THEN Return("ok") /\ d' = [d EXCEPT !.id = ""]
             ELSE Goto("r_manifest") /\ UNCHANGED d
  /\ UNCHANGED <<atStart, local, utilsRev, registry, dockerfile, localImages, state, op, prev>>

Read_imageTagExist ==
  /\ pc = "r_tag"
  /\ \E flt \in BOOLEAN :
       LET r == imageTagExist(d.image_tag, d.ecr_repository_name, flt)
       IN /\ Issue("imageTagExist", d.image_tag, flt)
          /\ IF r.err # Nil
             THEN Return("RegistryUnreachable") /\ UNCHANGED d
             ELSE IF ~r.out
             THEN Return("ok") /\ d' = [d EXCEPT !.id = ""]
             ELSE Goto("r_manifest") /\ UNCHANGED d
  /\ UNCHANGED <<atStart, local, utilsRev, registry, dockerfile, localImages, state, op, prev>>

\* Read_getImageManifest without the d.SetId of line 308.
Read_getImageManifest_idKept ==
  /\ pc = "r_manifest"
  /\ \E flt \in BOOLEAN :
       LET r == getImageManifest(d.ecr_repository_name, d.image_tag, flt)
       IN /\ Issue("getImageManifest", d.image_tag, flt)
          /\ IF r.err # Nil
             THEN Return("ManifestNotFound")
             ELSE Return("ok")
  /\ UNCHANGED <<atStart, local, utilsRev, registry, dockerfile, localImages, state, d, op, prev>>

Read_getImageManifest ==
  /\ pc = "r_manifest"
  /\ \E flt \in BOOLEAN :
       LET r == getImageManifest(d.ecr_repository_name, d.image_tag, flt)
       IN /\ Issue("getImageManifest", d.image_tag, flt)
          /\ IF r.err # Nil
             THEN Return("ManifestNotFound") /\ UNCHANGED d
             ELSE Return("ok") /\ d' = [d EXCEPT !.id = r.out]
  /\ UNCHANGED <<atStart, local, utilsRev, registry, dockerfile, localImages, state, op, prev>>

----------------------------------------------------------------------------
(***************************************************************************)
(* resourcePushImageDelete                                                 *)
(***************************************************************************)
Delete_repoExists ==
  /\ pc = "d_repo"
  /\ \E flt \in BOOLEAN :
       LET r == repoExists(d.ecr_repository_name, flt)
       IN /\ Issue("repoExists", "", flt)
          /\ IF r.err # Nil THEN Return(RegistryErrorKind(r.err))
             ELSE IF ~r.out THEN Return("RepositoryNotFound")
             ELSE Goto("d_tag")
  /\ UNCHANGED <<atStart, local, utilsRev, registry, dockerfile, localImages, state, d, op, prev>>

\* Delete_imageTagExist without the test of line 158.
Delete_imageTagExist_lenient ==
  /\ pc = "d_tag"
  /\ \E flt \in BOOLEAN :
       LET r == imageTagExist(d.image_tag, d.ecr_repository_name, flt)
       IN /\ Issue("imageTagExist", d.image_tag, flt)
          /\ IF r.err # Nil THEN Return("RegistryUnreachable")
             ELSE Goto("d_delete")
  /\ UNCHANGED <<atStart, local, utilsRev, registry, dockerfile, localImages, state, d, op, prev>>

Delete_imageTagExist ==
  /\ pc = "d_tag"
  /\ \E flt \in BOOLEAN :
       LET r == imageTagExist(d.image_tag, d.ecr_repository_name, flt)
       IN /\ Issue("imageTagExist", d.image_tag, flt)
          /\ IF r.err # Nil THEN Return("RegistryUnreachable")
             ELSE IF ~r.out THEN Return("TagNotFound")
             ELSE Goto("d_delete")
  /\ UNCHANGED <<atStart, local, utilsRev, registry, dockerfile, localImages, state, d, op, prev>>

\* Delete_deleteImage without the d.SetId("") of line 169.
Delete_deleteImage_idKept ==
  /\ pc = "d_delete"
  /\ \E flt \in BOOLEAN :
       LET r == deleteImage(d.ecr_repository_name, d.image_tag, flt)
       IN /\ Issue("deleteImage", d.image_tag, flt)
          /\ registry' = r.registry
          /\ IF r.err # Nil
             THEN Return("DeleteFailed")
             ELSE Return("ok")
  /\ UNCHANGED <<atStart, local, utilsRev, dockerfile, localImages, state, d, op, prev>>

Delete_deleteImage ==
  /\ pc = "d_delete"
  /\ \E flt \in BOOLEAN :
       LET r == deleteImage(d.ecr_repository_name, d.image_tag, flt)
       IN /\ Issue("deleteImage", d.image_tag, flt)
          /\ registry' = r.registry
          /\ IF r.err # Nil
             THEN Return("DeleteFailed") /\ UNCHANGED d
             ELSE Return("ok") /\ d' = [d EXCEPT !.id = ""]
  /\ UNCHANGED <<atStart, local, utilsRev, dockerfile, localImages, state, op, prev>>

----------------------------------------------------------------------------
(***************************************************************************)
(* resourcePushImageCreate                                                 *)
(***************************************************************************)
Create_isDockerDRunning ==
  /\ pc = "c_docker"
  /\ \E up \in BOOLEAN :
       LET r == isDockerDRunning(up)
       IN /\ Issue("isDockerDRunning", "", FALSE)
          /\ local' = [local EXCEPT !.dockerStatus = r.out]
          /\ IF r.err # Nil \/ ~r.out THEN Return("ToolchainUnavailable")
             ELSE Goto("c_hash")
  /\ UNCHANGED <<atStart, utilsRev, registry, dockerfile, localImages, state, d, op, prev>>

Create_getDockerfileHash ==
  /\ pc = "c_hash"
  /\ \E flt \in BOOLEAN :
       LET r == getDockerfileHash(flt)
       IN /\ Issue("getDockerfileHash", "", flt)
          /\ IF r.err # Nil
             THEN Return("DockerfileUnreadable") /\ UNCHANGED d
             ELSE Goto("c_repo") /\ d' = [d EXCEPT !.dockerfile_hash = r.out]
  /\ UNCHANGED <<atStart, local, utilsRev, registry, dockerfile, localImages, state, op, prev>>

Create_repoExists ==
  /\ pc = "c_repo"
  /\ \E flt \in BOOLEAN :
       LET r == repoExists(d.ecr_repository_name, flt)
       IN /\ Issue("repoExists", "", flt)
          /\ IF r.err # Nil THEN Return(RegistryErrorKind(r.err))
             ELSE IF ~r.out THEN Return("RepositoryNotFound")
             ELSE Goto("c_mutable")
  /\ UNCHANGED <<atStart, local, utilsRev, registry, dockerfile, localImages, state, d, op, prev>>

Create_isMutable ==
  /\ pc = "c_mutable"
  /\ \E flt \in BOOLEAN :
       LET r == isMutable(d.ecr_repository_name, flt)
       IN /\ Issue("isMutable", "", flt)
          /\ local' = [local EXCEPT !.repoMutability = r.out]
          /\ IF r.err # Nil THEN Return("RegistryUnreachable")
             ELSE Goto("c_tag")
  /\ UNCHANGED <<atStart, utilsRev, registry, dockerfile, localImages, state, d, op, prev>>

\* The test of line 94, and the test with the negation of repoMutability lost.
Create_tagConflict_negationLost(tagAlreadyExists, repoMutability) ==
  tagAlreadyExists /\ repoMutability

Create_tagConflict(tagAlreadyExists, repoMutability) ==
  tagAlreadyExists /\ ~repoMutability

\* Create_imageTagExist that refuses an existing tag whatever the mutability.
Create_imageTagExist_fatalWhenPresent ==
  /\ pc = "c_tag"
  /\ \E flt \in BOOLEAN :
       LET r == imageTagExist(d.image_tag, d.ecr_repository_name, flt)
       IN /\ Issue("imageTagExist", d.image_tag, flt)
          /\ IF r.err # Nil THEN Return("RegistryUnreachable")
             ELSE IF r.out THEN Return("ImmutableTagConflict")
             ELSE Goto("c_account")
  /\ UNCHANGED <<atStart, local, utilsRev, registry, dockerfile, localImages, state, d, op, prev>>

Create_imageTagExist ==
  /\ pc = "c_tag"
  /\ \E flt \in BOOLEAN :
       LET r == imageTagExist(d.image_tag, d.ecr_repository_name, flt)
       IN /\ Issue("imageTagExist", d.image_tag, flt)
          /\ IF r.err # Nil THEN Return("RegistryUnreachable")
             ELSE IF Create_tagConflict(r.out, local.repoMutability) THEN Return("ImmutableTagConflict")
             ELSE Goto("c_account")
  /\ UNCHANGED <<atStart, local, utilsRev, registry, dockerfile, localImages, state, d, op, prev>>

Create_getAWSAccountID ==
  /\ pc = "c_account"
  /\ \E flt \in BOOLEAN :
       LET r == getAWSAccountID(flt)
       IN /\ Issue("getAWSAccountID", "", flt)
          /\ IF r.err # Nil THEN Return("RegistryUnreachable")
             ELSE Goto("c_build")
  /\ UNCHANGED <<atStart, local, utilsRev, registry, dockerfile, localImages, state, d, op, prev>>

\* Create_buildDockerImage with a failed build tried a second time.
Create_buildDockerImage_retried ==
  /\ pc = "c_build"
  /\ \E flt \in BOOLEAN :
       LET r == buildDockerImage(imageNameAndTag(d.image_tag), flt)
       IN /\ Issue("buildDockerImage", d.image_tag, flt)
          /\ localImages' = r.images
          /\ IF r.err = Nil THEN Goto("c_dockertag")
             ELSE IF Logged("buildDockerImage") THEN Return("BuildFailed")
             ELSE Goto("c_build")
  /\ UNCHANGED <<atStart, local, utilsRev, registry, dockerfile, state, d, op, prev>>

Create_buildDockerImage ==
  /\ pc = "c_build"
  /\ \E flt \in BOOLEAN :
       LET r == buildDockerImage(imageNameAndTag(d.image_tag), flt)
       IN /\ Issue("buildDockerImage", d.image_tag, flt)
          /\ localImages' = r.images
          /\ IF r.err # Nil THEN Return("BuildFailed") ELSE Goto("c_dockertag")
  /\ UNCHANGED <<atStart, local, utilsRev, registry, dockerfile, state, d, op, prev>>

\* Create_tagDockerImage that goes on to the push whatever docker tag returned.
Create_tagDockerImage_errorIgnored ==
  /\ pc = "c_dockertag"
  /\ \E flt \in BOOLEAN :
       LET r == tagDockerImage(imageNameAndTag(d.image_tag),
                               ecrUriWithTag(d.ecr_repository_name, d.image_tag), flt)
       IN /\ Issue("tagDockerImage", d.image_tag, FALSE)
          /\ localImages' = r.images
          /\ Goto("c_push")
  /\ UNCHANGED <<atStart, local, utilsRev, registry, dockerfile, state, d, op, prev>>

Create_tagDockerImage ==
  /\ pc = "c_dockertag"
  /\ \E flt \in BOOLEAN :
       LET r == tagDockerImage(imageNameAndTag(d.image_tag),
                               ecrUriWithTag(d.ecr_repository_name, d.image_tag), flt)
       IN /\ Issue("tagDockerImage", d.image_tag, flt)
          /\ localImages' = r.images
          /\ IF r.err # Nil THEN Return("TagFailed") ELSE Goto("c_push")
  /\ UNCHANGED <<atStart, local, utilsRev, registry, dockerfile, state, d, op, prev>>

\* pushDockerImage is not given the ctx of the handler (utils.go:81 takes
\* none, part_001:191 makes its own context.Background()), and the handler
\* never looks at ctx.Err(): a cancellation changes nothing in what follows.
Create_pushDockerImage ==
  /\ pc = "c_push"
  /\ \E authFlt \in BOOLEAN, flt \in BOOLEAN, cancel \in BOOLEAN :
       LET r == pushDockerImage(ecrUriWithTag(d.ecr_repository_name, d.image_tag),
                                d.ecr_repository_name, d.image_tag, authFlt, flt)
       IN /\ Issue("pushDockerImage", d.image_tag, authFlt \/ flt)
          /\ registry' = r.registry
          /\ local' = [local EXCEPT !.ctxDone = cancel]
          /\ IF r.err # Nil THEN Return("PushFailed") ELSE Goto("c_manifest")
  /\ UNCHANGED <<atStart, utilsRev, dockerfile, localImages, state, d, op, prev>>

Create_getImageManifest ==
  /\ pc = "c_manifest"
  /\ \E flt \in BOOLEAN :
       LET r == getImageManifest(d.ecr_repository_name, d.image_tag, flt)
       IN /\ Issue("getImageManifest", d.image_tag, flt)
          /\ IF r.err # Nil
             THEN Return("ManifestNotFound") /\ UNCHANGED d
             ELSE Return("ok") /\ d' = [d EXCEPT !.id = r.out]
  /\ UNCHANGED <<atStart, local, utilsRev, registry, dockerfile, localImages, state, op, prev>>

----------------------------------------------------------------------------
(***************************************************************************)
(* resourcePushImageUpdate                                                 *)
(***************************************************************************)
\* An Update that rebuilds after every retag.
AfterTagBlock_alwaysRebuild == "u_account"

\* Where the handler goes after the image_tag block (lines 232 and 265).
AfterTagBlock == IF HasChange_dockerfile_hash THEN "u_account" ELSE "done"

AfterTagResult == IF HasChange_dockerfile_hash THEN "running" ELSE "ok"

\* Update_begin without the HasChange test of line 186.
Update_begin_unguarded ==
  /\ pc = "u_begin"
  /\ Goto("u_repo")
  /\ UNCHANGED <<atStart, local, utilsRev, registry, dockerfile, localImages, state,
                 d, op, log, faulted, prev>>

Update_begin ==
  /\ pc = "u_begin"
  /\ IF HasChange_image_tag
     THEN Goto("u_repo")
     ELSE pc' = AfterTagBlock /\ result' = AfterTagResult
  /\ UNCHANGED <<atStart, local, utilsRev, registry, dockerfile, localImages, state,
                 d, op, log, faulted, prev>>

Update_repoExists ==
  /\ pc = "u_repo"
  /\ \E flt \in BOOLEAN :
       LET r == repoExists(d.ecr_repository_name, flt)
       IN /\ Issue("repoExists", "", flt)
          /\ IF r.err # Nil THEN Return(RegistryErrorKind(r.err))
             ELSE IF ~r.out THEN Return("RepositoryNotFound")
             ELSE Goto("u_oldtag")
  /\ UNCHANGED <<atStart, local, utilsRev, registry, dockerfile, localImages, state, d, op, prev>>

\* Update_imageTagExist_old without the test of line 199.
Update_imageTagExist_old_lenient ==
  /\ pc = "u_oldtag"
  /\ \E flt \in BOOLEAN :
       LET r == imageTagExist(d.oldTag, d.ecr_repository_name, flt)
       IN /\ Issue("imageTagExist", d.oldTag, flt)
          /\ IF r.err # Nil THEN Return("RegistryUnreachable")
             ELSE Goto("u_mutable")
  /\ UNCHANGED <<atStart, local, utilsRev, registry, dockerfile, localImages, state, d, op, prev>>

Update_imageTagExist_old ==
  /\ pc = "u_oldtag"
  /\ \E flt \in BOOLEAN :
       LET r == imageTagExist(d.oldTag, d.ecr_repository_name, flt)
       IN /\ Issue("imageTagExist", d.oldTag, flt)
          /\ IF r.err # Nil THEN Return("RegistryUnreachable")
             ELSE IF ~r.out THEN Return("StaleTagReference")
             ELSE Goto("u_mutable")
  /\ UNCHANGED <<atStart, local, utilsRev, registry, dockerfile, localImages, state, d, op, prev>>

Update_isMutable ==
  /\ pc = "u_mutable"
  /\ \E flt \in BOOLEAN :
       LET r == isMutable(d.ecr_repository_name, flt)
       IN /\ Issue("isMutable", "", flt)
          /\ local' = [local EXCEPT !.repoMutability = r.out]
          /\ IF r.err # Nil THEN Return("RegistryUnreachable")
             ELSE Goto("u_newtag")
  /\ UNCHANGED <<atStart, utilsRev, registry, dockerfile, localImages, state, d, op, prev>>

\* The test of line 212, and the test with the negation of repoMutability lost.
Update_tagConflict_negationLost(newTagAlreadyExists, repoMutability) ==
  newTagAlreadyExists /\ repoMutability

Update_tagConflict(newTagAlreadyExists, repoMutability) ==
  newTagAlreadyExists /\ ~repoMutability

\* Update_imageTagExist_new that refuses an existing newTag whatever the
\* mutability.
Update_imageTagExist_new_fatalWhenPresent ==
  /\ pc = "u_newtag"
  /\ \E flt \in BOOLEAN :
       LET r == imageTagExist(d.image_tag, d.ecr_repository_name, flt)
       IN /\ Issue("imageTagExist", d.image_tag, flt)
          /\ IF r.err # Nil THEN Return("RegistryUnreachable")
             ELSE IF r.out THEN Return("ImmutableTagConflict")
             ELSE Goto("u_manifest_old")
  /\ UNCHANGED <<atStart, local, utilsRev, registry, dockerfile, localImages, state, d, op, prev>>

Update_imageTagExist_new ==
  /\ pc = "u_newtag"
  /\ \E flt \in BOOLEAN :
       LET r == imageTagExist(d.image_tag, d.ecr_repository_name, flt)
       IN /\ Issue("imageTagExist", d.image_tag, flt)
          /\ IF r.err # Nil THEN Return("RegistryUnreachable")
             ELSE IF Update_tagConflict(r.out, local.repoMutability) THEN Return("ImmutableTagConflict")
             ELSE Goto("u_manifest_old")
  /\ UNCHANGED <<atStart, local, utilsRev, registry, dockerfile, localImages, state, d, op, prev>>

Update_getImageManifest_old ==
  /\ pc = "u_manifest_old"
  /\ \E flt \in BOOLEAN :
       LET r == getImageManifest(d.ecr_repository_name, d.oldTag, flt)
       IN /\ Issue("getImageManifest", d.oldTag, flt)
          /\ local' = [local EXCEPT !.imageManifest = r.out]
          /\ IF r.err # Nil THEN Return("ManifestNotFound")
             ELSE Goto("u_put")
  /\ UNCHANGED <<atStart, utilsRev, registry, dockerfile, localImages, state, d, op, prev>>

Update_updateImageTag ==
  /\ pc = "u_put"
  /\ \E flt \in BOOLEAN :
       LET r == updateImageTag(local.imageManifest, d.ecr_repository_name,
                               d.image_tag, flt)
       IN /\ Issue("updateImageTag", d.image_tag, flt)
          /\ registry' = r.registry
          /\ IF r.err # Nil THEN Return("RetagFailed") ELSE Goto("u_delete")
  /\ UNCHANGED <<atStart, local, utilsRev, dockerfile, localImages, state, d, op, prev>>

\* Update_deleteImage that ends the Update with the retag, the hash block
\* of line 232 never entered.
Update_deleteImage_rebuildSkipped ==
  /\ pc = "u_delete"
  /\ \E flt \in BOOLEAN :
       LET r == deleteImage(d.ecr_repository_name, d.oldTag, flt)
       IN /\ Issue("deleteImage", d.oldTag, flt)
          /\ registry' = r.registry
          /\ IF r.err # Nil
             THEN Return("DeleteFailed") /\ UNCHANGED d
             ELSE /\ d' = [d EXCEPT !.id = local.imageManifest]
                  /\ Return("ok")
  /\ UNCHANGED <<atStart, local, utilsRev, dockerfile, localImages, state, op, prev>>

\* deleteImage(oldTag), then d.SetId(imageManifest), then on to line 232.
Update_deleteImage ==
  /\ pc = "u_delete"
  /\ \E flt \in BOOLEAN :
       LET r == deleteImage(d.ecr_repository_name, d.oldTag, flt)
       IN /\ Issue("deleteImage", d.oldTag, flt)
          /\ registry' = r.registry
          /\ IF r.err # Nil
             THEN Return("DeleteFailed") /\ UNCHANGED d
             ELSE /\ d' = [d EXCEPT !.id = local.imageManifest]
                  /\ pc' = AfterTagBlock
                  /\ result' = AfterTagResult
  /\ UNCHANGED <<atStart, local, utilsRev, dockerfile, localImages, state, op, prev>>

Update_getAWSAccountID ==
  /\ pc = "u_account"
  /\ \E flt \in BOOLEAN :
       LET r == getAWSAccountID(flt)
       IN /\ Issue("getAWSAccountID", "", flt)
          /\ IF r.err # Nil THEN Return("RegistryUnreachable")
             ELSE Goto("u_build")
  /\ UNCHANGED <<atStart, local, utilsRev, registry, dockerfile, localImages, state, d, op, prev>>

Update_buildDockerImage ==
  /\ pc = "u_build"
  /\ \E flt \in BOOLEAN :
       LET r == buildDockerImage(imageNameAndTag(d.image_tag), flt)
       IN /\ Issue("buildDockerImage", d.image_tag, flt)
          /\ localImages' = r.images
          /\ IF r.err # Nil THEN Return("BuildFailed") ELSE Goto("u_dockertag")
  /\ UNCHANGED <<atStart, local, utilsRev, registry, dockerfile, state, d, op, prev>>

Update_tagDockerImage ==
  /\ pc = "u_dockertag"
  /\ \E flt \in BOOLEAN :
       LET r == tagDockerImage(imageNameAndTag(d.image_tag),
                               ecrUriWithTag(d.ecr_repository_name, d.image_tag), flt)
       IN /\ Issue("tagDockerImage", d.image_tag, flt)
          /\ localImages' = r.images
          /\ IF r.err # Nil THEN Return("TagFailed") ELSE Goto("u_push")
  /\ UNCHANGED <<atStart, local, utilsRev, registry, dockerfile, state, d, op, prev>>

\* pushDockerImage is not given the ctx of the handler (utils.go:81 takes
\* none, part_001:191 makes its own context.Background()), and the handler
\* never looks at ctx.Err(): a cancellation changes nothing in what follows.
Update_pushDockerImage ==
  /\ pc = "u_push"
  /\ \E authFlt \in BOOLEAN, flt \in BOOLEAN, cancel \in BOOLEAN :
       LET r == pushDockerImage(ecrUriWithTag(d.ecr_repository_name, d.image_tag),
                                d.ecr_repository_name, d.image_tag, authFlt, flt)
       IN /\ Issue("pushDockerImage", d.image_tag, authFlt \/ flt)
          /\ registry' = r.registry
          /\ local' = [local EXCEPT !.ctxDone = cancel]
          /\ IF r.err # Nil THEN Return("PushFailed") ELSE Goto("u_manifest")
  /\ UNCHANGED <<atStart, utilsRev, dockerfile, localImages, state, d, op, prev>>

\* Update_getImageManifest without the d.SetId of line 263.
Update_getImageManifest_idKept ==
  /\ pc = "u_manifest"
  /\ \E flt \in BOOLEAN :
       LET r == getImageManifest(d.ecr_repository_name, d.image_tag, flt)
       IN /\ Issue("getImageManifest", d.image_tag, flt)
          /\ IF r.err # Nil
             THEN Return("ManifestNotFound")
             ELSE Return("ok")
  /\ UNCHANGED <<atStart, local, utilsRev, registry, dockerfile, localImages, state, d, op, prev>>

Update_getImageManifest ==
  /\ pc = "u_manifest"
  /\ \E flt \in BOOLEAN :
       LET r == getImageManifest(d.ecr_repository_name, d.image_tag, flt)
       IN /\ Issue("getImageManifest", d.image_tag, flt)
          /\ IF r.err # Nil
             THEN Return("ManifestNotFound") /\ UNCHANGED d
             ELSE Return("ok") /\ d' = [d EXCEPT !.id = r.out]
  /\ UNCHANGED <<atStart, local, utilsRev, registry, dockerfile, localImages, state, op, prev>>

----------------------------------------------------------------------------
Environment ==
  \/ \E repo \in Repos : EnvRegistryChange(repo)
  \/ EnvEditDockerfile

Engine ==
  \/ \E t \in Tags : StartCreate(t)
  \/ StartRead
  \/ \E t \in Tags : StartUpdate(t)
  \/ StartDelete
  \/ Commit

resourcePushImageRead ==
  \/ Read_repoExists
  \/ Read_imageTagExist
  \/ Read_getImageManifest

resourcePushImageDelete ==
  \/ Delete_repoExists
  \/ Delete_imageTagExist
  \/ Delete_deleteImage

resourcePushImageCreate ==
  \/ Create_isDockerDRunning
  \/ Create_getDockerfileHash
  \/ Create_repoExists
  \/ Create_isMutable
  \/ Create_imageTagExist
  \/ Create_getAWSAccountID
  \/ Create_buildDockerImage
  \/ Create_tagDockerImage
  \/ Create_pushDockerImage
  \/ Create_getImageManifest

resourcePushImageUpdate ==
  \/ Update_begin
  \/ Update_repoExists
  \/ Update_imageTagExist_old
  \/ Update_isMutable
  \/ Update_imageTagExist_new
  \/ Update_getImageManifest_old
  \/ Update_updateImageTag
  \/ Update_deleteImage
  \/ Update_getAWSAccountID
  \/ Update_buildDockerImage
  \/ Update_tagDockerImage
  \/ Update_pushDockerImage
  \/ Update_getImageManifest

Next ==
  \/ Environment
  \/ Engine
  \/ customizeDiffForDockerfileChanges
  \/ resourcePushImageCreate
  \/ resourcePushImageRead
  \/ resourcePushImageUpdate
  \/ resourcePushImageDelete

Spec == Init /\ [][Next]_vars

----------------------------------------------------------------------------
(***************************************************************************)
(* Vocabulary of the properties.                                           *)
(***************************************************************************)
InCall(o) == op = o /\ pc \notin {"idle", "diff"} /\ result # "PlanFailed"

Returned(o) == InCall(o) /\ pc = "done"

Failed == result \notin {"ok", "running", "none"}

StartRepo == atStart.registry[d.ecr_repository_name]

NowRepo == registry[d.ecr_repository_name]

\* No helper of the running call failed for a reason of its own.
HelpersAnswered == ~faulted

TagChange == d.oldTag # d.image_tag

ContentDrift == d.oldHash # d.dockerfile_hash

----------------------------------------------------------------------------
(***************************************************************************)
(* C1.  Create with the daemon running and the repository existing: if     *)
(* the repository is IMMUTABLE and the tag already exists, Create fails    *)
(* (with ImmutableTagConflict when every helper it asked answered), calls  *)
(* none of buildDockerImage, tagDockerImage, pushDockerImage and           *)
(* updateImageTag, and the id stays empty.                                 *)
(***************************************************************************)
C1_Case ==
  /\ InCall("Create")
  /\ local.dockerStatus
  /\ StartRepo.exists
  /\ ~StartRepo.mutable
  /\ StartRepo.tags[d.image_tag] # NoTag

C1_ImmutableCreateRefused ==
  C1_Case =>
    /\ ~Logged("buildDockerImage")
    /\ ~Logged("tagDockerImage")
    /\ ~Logged("pushDockerImage")
    /\ ~Logged("updateImageTag")
    /\ d.id = ""
    /\ pc = "done" => Failed
    /\ pc = "done" /\ HelpersAnswered => result = "ImmutableTagConflict"

C1_Witness ==
  C1_Case /\ pc = "done" /\ result = "ImmutableTagConflict" /\ Logged("imageTagExist")

(***************************************************************************)
(* C2.  Update with a tag change oldTag -> newTag, repository and oldTag   *)
(* existing: if the repository is IMMUTABLE and newTag already exists,     *)
(* Update fails (with ImmutableTagConflict when every helper answered),    *)
(* calls none of updateImageTag, deleteImage and pushDockerImage, and      *)
(* oldTag still points at the manifest it had before the call.             *)
(***************************************************************************)
C2_Case ==
  /\ InCall("Update")
  /\ TagChange
  /\ StartRepo.exists
  /\ ~StartRepo.mutable
  /\ StartRepo.tags[d.oldTag] # NoTag
  /\ StartRepo.tags[d.image_tag] # NoTag

C2_ImmutableRetagRefused ==
  C2_Case =>
    /\ ~Logged("updateImageTag")
    /\ ~Logged("deleteImage")
    /\ ~Logged("pushDockerImage")
    /\ NowRepo.exists
    /\ NowRepo.tags[d.oldTag] = StartRepo.tags[d.oldTag]
    /\ pc = "done" => Failed
    /\ pc = "done" /\ ~faulted => result = "ImmutableTagConflict"

C2_Witness ==
  C2_Case /\ pc = "done" /\ result = "ImmutableTagConflict"

(***************************************************************************)
(* C3.  Invariant I1: whenever a handler issues pushDockerImage or         *)
(* updateImageTag against a tag of an IMMUTABLE repository, the tag does   *)
(* not exist at that moment, unless the call just before it in the same    *)
(* handler was the deleteImage of that tag.                                *)
(***************************************************************************)
C3_NoWriteOnExistingImmutableTag ==
  \A i \in 1..Len(log) :
    (log[i].fn \in {"pushDockerImage", "updateImageTag"} /\ log[i].onExistingImmutable)
      => /\ i > 1
         /\ log[i-1].fn = "deleteImage"
         /\ log[i-1].tag = log[i].tag

(***************************************************************************)
(* C4.  After a successful Update that changed the tag from oldTag to      *)
(* newTag, newTag has the manifest oldTag had before the update, oldTag    *)
(* is gone, newTag exists, and the id is that manifest.  Stated for every  *)
(* tag-changing Update (C4_RetagPreservesContent_AnyUpdate) and for the    *)
(* Update in which only the tag changed (C4_RetagPreservesContent).        *)
(***************************************************************************)
C4_Post ==
  /\ NowRepo.exists
  /\ NowRepo.tags[d.image_tag] = StartRepo.tags[d.oldTag]
  /\ NowRepo.tags[d.oldTag] = NoTag
  /\ NowRepo.tags[d.image_tag] # NoTag
  /\ d.id = StartRepo.tags[d.oldTag]

C4_RetagPreservesContent_AnyUpdate ==
  (Returned("Update") /\ TagChange /\ result = "ok") => C4_Post

C4_RetagPreservesContent ==
  (Returned("Update") /\ TagChange /\ ~ContentDrift /\ result = "ok") => C4_Post

C4_Witness ==
  /\ Returned("Update") /\ TagChange /\ ~ContentDrift /\ result = "ok"
  /\ Logged("updateImageTag") /\ Logged("deleteImage")
  /\ d.id \in Manifests

(***************************************************************************)
(* C5.  Retry of a tag-change Update: when an Update oldTag -> newTag      *)
(* failed at the deletion of oldTag after newTag was published, the same   *)
(* Update invoked again with every helper succeeding returns success,      *)
(* with newTag present, oldTag absent and the id set, in MUTABLE and       *)
(* IMMUTABLE repositories alike.                                           *)
(***************************************************************************)
C5_Case ==
  /\ Returned("Update")
  /\ TagChange
  /\ ~ContentDrift
  /\ prev.op = "Update"
  /\ prev.result = "DeleteFailed"
  /\ prev.newTag = d.image_tag
  /\ ~faulted

C5_RetryAfterFailedDeleteSucceeds ==
  C5_Case =>
    /\ result = "ok"
    /\ NowRepo.tags[d.image_tag] # NoTag
    /\ NowRepo.tags[d.oldTag] = NoTag
    /\ d.id # ""

(***************************************************************************)
(* C6.  Read, when the repository of the resource does not exist any       *)
(* more and the registry answers: the id becomes empty, no error is        *)
(* returned, and neither tags nor manifests are queried.                   *)
(***************************************************************************)
C6_Case == Returned("Read") /\ ~StartRepo.exists /\ ~faulted

C6_ReadClearsOnMissingRepository ==
  C6_Case =>
    /\ result = "ok"
    /\ d.id = ""
    /\ ~Logged("imageTagExist")
    /\ ~Logged("getImageManifest")

(***************************************************************************)
(* C7.  Read, when the repository exists but the tag of the resource does  *)
(* not and the registry answers: the id becomes empty, no error is         *)
(* returned, and no manifest is fetched.                                   *)
(***************************************************************************)
C7_Case ==
  /\ Returned("Read")
  /\ StartRepo.exists
  /\ StartRepo.tags[d.image_tag] = NoTag
  /\ ~faulted

C7_ReadClearsOnMissingTag ==
  C7_Case =>
    /\ result = "ok"
    /\ d.id = ""
    /\ ~Logged("getImageManifest")

C7_Witness ==
  C7_Case /\ state.id # "" /\ d.id = "" /\ result = "ok"

(***************************************************************************)
(* C8.  Read is idempotent: a Read that follows a Read with no change of   *)
(* the registry in between, the registry answering both times, yields the  *)
(* same id and the same outcome as the first.                              *)
(***************************************************************************)
C8_Case ==
  /\ Returned("Read")
  /\ prev.op = "Read"
  /\ ~faulted
  /\ ~prev.faulted

C8_ReadIdempotent ==
  C8_Case => d.id = state.id /\ result = prev.result

C8_Witness ==
  C8_Case /\ d.id \in Manifests /\ result = "ok"

(***************************************************************************)
(* C9.  After a Delete that returned success the tag does not exist in     *)
(* the repository and the id is empty; a Read of the same resource that    *)
(* follows it, with no change of the registry in between and the registry  *)
(* answering, returns no error and an empty id.                            *)
(***************************************************************************)
C9_DeleteCase == Returned("Delete") /\ result = "ok"

C9_ReadCase ==
  /\ Returned("Read")
  /\ prev.op = "Delete"
  /\ prev.result = "ok"
  /\ ~faulted

C9_DeleteThenReadAbsent ==
  /\ C9_DeleteCase => (~TagExists(d.ecr_repository_name, d.image_tag) /\ d.id = "")
  /\ C9_ReadCase => (result = "ok" /\ d.id = "")

C9_Witness == C9_ReadCase /\ Logged("imageTagExist") /\ result = "ok"

(***************************************************************************)
(* C10.  An Update in which neither the tag nor the Dockerfile hash        *)
(* changed calls no helper at all (no build, tag, push, put or delete and  *)
(* no registry query), returns success and leaves the id and the hash as   *)
(* they were.                                                              *)
(***************************************************************************)
C10_Case == InCall("Update") /\ ~TagChange /\ ~ContentDrift

C10_NoOpUpdate ==
  C10_Case =>
    /\ log = <<>>
    /\ registry = atStart.registry
    /\ d.id = state.id
    /\ d.dockerfile_hash = state.dockerfile_hash
    /\ pc \in {"u_begin", "done"}
    /\ pc = "done" => result = "ok"

C10_Witness == C10_Case /\ pc = "done" /\ result = "ok" /\ d.id \in Manifests

----------------------------------------------------------------------------
\* The names of the helpers the running call issued, in order.
Steps == [i \in 1..Len(log) |-> log[i].fn]

IsPrefix(s, t) == Len(s) <= Len(t) /\ \A i \in 1..Len(s) : s[i] = t[i]

\* Lines 98-125 of Create and 233-259 of Update.
BuildAndPushSteps == <<"getAWSAccountID", "buildDockerImage", "tagDockerImage",
                       "pushDockerImage", "getImageManifest">>

\* What Terraform may store when the running call has returned.
Storable == {Persisted(full) : full \in {f \in BOOLEAN : f \/ (op = "Update" /\ result # "ok")}}

(***************************************************************************)
(* C11.  A Create that returned success: the tag exists in the             *)
(* repository, the id is the manifest the registry holds for the tag (the  *)
(* image built from the Dockerfile), the id is not empty, and the          *)
(* dockerfile_hash is the hash of the Dockerfile.                          *)
(***************************************************************************)
C11_Case == Returned("Create") /\ result = "ok"

C11_CreateSetsIdAndHash ==
  C11_Case =>
    /\ TagExists(d.ecr_repository_name, d.image_tag)
    /\ d.id = NowRepo.tags[d.image_tag]
    /\ d.id = ManifestOf(dockerfile)
    /\ d.id # ""
    /\ d.dockerfile_hash = Sha256Hex(dockerfile)
    /\ Persisted(TRUE) = [id |-> d.id, image_tag |-> d.image_tag,
                          dockerfile_hash |-> Sha256Hex(dockerfile)]

C11_Witness ==
  C11_Case /\ Logged("pushDockerImage") /\ Logged("getImageManifest")
           /\ d.id \in Manifests

(***************************************************************************)
(* C12.  A Create or an Update that returned an error: the                 *)
(* dockerfile_hash Terraform stores after the call is the one it had       *)
(* stored before the call (none, for Create).                              *)
(***************************************************************************)
C12_FailedCallKeepsFingerprint ==
  ((Returned("Create") \/ Returned("Update")) /\ Failed) =>
    \A st \in Storable : st.dockerfile_hash = state.dockerfile_hash

(***************************************************************************)
(* C13.  A Create, Update or Delete that returned an error: the id the     *)
(* handler left is the id the call started with, and id, tag and hash      *)
(* stored after the call are those stored before it.                       *)
(***************************************************************************)
C13_FailedCallKeepsState ==
  ((Returned("Create") \/ Returned("Update") \/ Returned("Delete")) /\ Failed) =>
    /\ d.id = state.id
    /\ \A st \in Storable : st = state

(***************************************************************************)
(* C14.  Delete, the registry answering: with the repository missing it    *)
(* fails with RepositoryNotFound, with the repository there and the tag    *)
(* missing it fails with TagNotFound; in both cases deleteImage is not     *)
(* called, the registry is untouched and the id stays as it was.           *)
(***************************************************************************)
C14_Case ==
  /\ Returned("Delete")
  /\ ~faulted
  /\ ~StartRepo.exists \/ StartRepo.tags[d.image_tag] = NoTag

C14_DeleteOfMissingFails ==
  C14_Case =>
    /\ result = IF StartRepo.exists THEN "TagNotFound" ELSE "RepositoryNotFound"
    /\ ~Logged("deleteImage")
    /\ registry = atStart.registry
    /\ d.id = state.id
    /\ d.id # ""

C14_Witness ==
  C14_Case /\ StartRepo.exists /\ result = "TagNotFound" /\ Logged("imageTagExist")

(***************************************************************************)
(* C15.  An Update with the tag unchanged and the hash changed issues      *)
(* getAWSAccountID, buildDockerImage, tagDockerImage, pushDockerImage and  *)
(* getImageManifest against the current tag, in this order and nothing     *)
(* else, which are the last five calls of a successful Create; when it     *)
(* returns success the id is the manifest the registry now holds for the   *)
(* tag and the dockerfile_hash is the new hash.                            *)
(***************************************************************************)
C15_Case == InCall("Update") /\ ~TagChange /\ ContentDrift

C15_ContentDriftRebuilds ==
  /\ C15_Case =>
       /\ IsPrefix(Steps, BuildAndPushSteps)
       /\ \A i \in 1..Len(log) : log[i].tag \in {"", d.image_tag}
       /\ (pc = "done" /\ result = "ok") =>
            /\ Steps = BuildAndPushSteps
            /\ TagExists(d.ecr_repository_name, d.image_tag)
            /\ d.id = NowRepo.tags[d.image_tag]
            /\ d.id = ManifestOf(dockerfile)
            /\ d.dockerfile_hash = Sha256Hex(dockerfile)
            /\ d.dockerfile_hash # state.dockerfile_hash
  /\ (Returned("Create") /\ result = "ok") =>
       /\ Len(Steps) >= 5
       /\ SubSeq(Steps, Len(Steps) - 4, Len(Steps)) = BuildAndPushSteps

C15_Witness ==
  /\ C15_Case /\ pc = "done" /\ result = "ok"
  /\ d.id # state.id
  /\ atStart.registry[d.ecr_repository_name].tags[d.image_tag] = state.id

(***************************************************************************)
(* C16.  The plan-time diff.  For a resource with an id the hash of the    *)
(* Dockerfile is computed; if it differs from the stored one the           *)
(* dockerfile_hash of the diff is the new hash and the resource is not     *)
(* marked for replacement (it goes to Update with the same id); if it is   *)
(* equal nothing changes.  For a resource without id the diff does         *)
(* nothing.                                                                *)
(***************************************************************************)
C16_DiffMarksInPlace ==
  /\ (op = "Update" /\ pc = "u_begin") =>
       /\ d.id = state.id
       /\ d.dockerfile_hash = Sha256Hex(dockerfile)
       /\ (d.oldHash = Sha256Hex(dockerfile)) => d = [d EXCEPT !.dockerfile_hash = d.oldHash]
       /\ ~d.requiresNew
  /\ (op = "Create" /\ pc = "c_docker") =>
       /\ d.id = ""
       /\ d.dockerfile_hash = ""
       /\ ~d.requiresNew

(***************************************************************************)
(* C17.  Create with the daemon running, the repository existing and       *)
(* every helper answering: when the repository is MUTABLE (the tag there   *)
(* or not) or the tag is absent (either mode), Create builds and pushes,   *)
(* returns success, and the tag then points at the image just built.       *)
(***************************************************************************)
C17_Case ==
  /\ Returned("Create")
  /\ local.dockerStatus
  /\ StartRepo.exists
  /\ StartRepo.mutable \/ StartRepo.tags[d.image_tag] = NoTag
  /\ ~faulted

C17_CreateProceedsUnlessImmutableConflict ==
  C17_Case =>
    /\ result = "ok"
    /\ Logged("buildDockerImage")
    /\ Logged("pushDockerImage")
    /\ NowRepo.tags[d.image_tag] = ManifestOf(dockerfile)
    /\ d.id = ManifestOf(dockerfile)

C17_Witness ==
  /\ C17_Case
  /\ StartRepo.mutable
  /\ StartRepo.tags[d.image_tag] \notin {NoTag, ManifestOf(dockerfile)}
  /\ NowRepo.tags[d.image_tag] = ManifestOf(dockerfile)

(***************************************************************************)
(* C18.  Invariant I2 when a call has returned (the registry cannot have   *)
(* changed since): the id is not empty if and only if the tag the call     *)
(* describes exists in the repository.  Stated for every call, successful  *)
(* or failed (C18_IdIffTagExists_EveryCall), and for the successful        *)
(* calls in which the handler asked the registry (C18_IdIffTagExists).     *)
(***************************************************************************)
C18_Post == (d.id # "") <=> TagExists(d.ecr_repository_name, d.image_tag)

C18_IdIffTagExists_EveryCall ==
  (\E o \in {"Create", "Read", "Update", "Delete"} : Returned(o)) => C18_Post

C18_IdIffTagExists ==
  ((\E o \in {"Create", "Read", "Update", "Delete"} : Returned(o))
     /\ result = "ok" /\ log # <<>>) => C18_Post

C18_Witness ==
  /\ Returned("Read") /\ result = "ok" /\ Logged("imageTagExist")
  /\ state.id # "" /\ d.id = ""
  /\ ~TagExists(d.ecr_repository_name, d.image_tag)

(***************************************************************************)
(* C19.  An Update that changes the tag, the registry answering: with the  *)
(* repository missing it fails with RepositoryNotFound, with the           *)
(* repository there and oldTag missing it fails with StaleTagReference;    *)
(* in both cases neither updateImageTag nor deleteImage is called, the     *)
(* registry is untouched (newTag is not created) and the id stays.         *)
(***************************************************************************)
C19_Case ==
  /\ Returned("Update")
  /\ TagChange
  /\ ~faulted
  /\ ~StartRepo.exists \/ StartRepo.tags[d.oldTag] = NoTag

C19_RetagOfMissingFails ==
  C19_Case =>
    /\ result = IF StartRepo.exists THEN "StaleTagReference" ELSE "RepositoryNotFound"
    /\ ~Logged("updateImageTag")
    /\ ~Logged("deleteImage")
    /\ ~Logged("pushDockerImage")
    /\ registry = atStart.registry
    /\ d.id = state.id

C19_Witness ==
  /\ C19_Case /\ StartRepo.exists /\ result = "StaleTagReference"
  /\ StartRepo.tags[d.image_tag] = NoTag

----------------------------------------------------------------------------
(***************************************************************************)
(* pushDockerImage step by step, in its three revisions: utils.go starts   *)
(* the docker push process, then runs the login command, then waits for    *)
(* the push; part_001 fetches the token and hands it to ImagePush;         *)
(* part_002 fetches the token, runs docker login, then runs docker push.   *)
(* The call is entered with the image built and tagged.  local holds the   *)
(* processes of the call: whether the daemon's credential store has a      *)
(* valid login for the registry (from an earlier login, or from this       *)
(* one), how the authentication ended, where the push process is, and      *)
(* whether image bytes went to the registry.                               *)
(***************************************************************************)
PushRevisions == UtilsRevisions \cup {"part_002"}

PushLocals(cred) == [credentials |-> cred, auth |-> "notrun", push |-> "notstarted",
                     bytesSent |-> FALSE]

PushInit ==
  /\ utilsRev \in PushRevisions
  /\ registry \in [Repos -> [exists : {TRUE}, mutable : BOOLEAN,
                              tags : [Tags -> Manifests \cup {NoTag}]]]
  /\ dockerfile \in Contents
  /\ \E t \in Tags :
       /\ d = [EmptyData EXCEPT !.image_tag = t, !.dockerfile_hash = Sha256Hex(dockerfile)]
       /\ localImages = [NoLocalImages EXCEPT
                           ![imageNameAndTag(t)] = ManifestOf(dockerfile),
                           ![ecrUriWithTag(RepoName, t)] = ManifestOf(dockerfile)]
  /\ \E cred \in BOOLEAN : local = PushLocals(cred)
  /\ state = [id |-> "", image_tag |-> TagNames[1], dockerfile_hash |-> ""]
  /\ op = "pushDockerImage"
  /\ pc = "p_begin"
  /\ result = "running"
  /\ log = <<>>
  /\ faulted = FALSE
  /\ atStart = [registry |-> registry, dockerfile |-> dockerfile]
  /\ prev = NoCall

PushUnchanged == UNCHANGED <<utilsRev, dockerfile, localImages, state, d, op, log,
                             faulted, atStart, prev>>

\* The docker push process once it talks to the registry: without a login
\* it is turned away before any layer is sent; with one it uploads.
DockerPush(flt) ==
  LET up == Upload(ecrUriWithTag(d.ecr_repository_name, d.image_tag),
                   d.ecr_repository_name, d.image_tag, flt)
  IN IF ~local.credentials
     THEN [exit |-> 1, bytesSent |-> FALSE, registry |-> registry]
     ELSE [exit |-> IF up.err = Nil THEN 0 ELSE 1, bytesSent |-> ~flt,
           registry |-> up.registry]

\* utils.go:92  errStart := pushImage.Start()
pushImage_Start ==
  /\ utilsRev = "utils.go"
  /\ pc = "p_begin"
  /\ \E flt \in BOOLEAN :
       local' = [local EXCEPT !.push = IF flt THEN "notstarted" ELSE "running"]
  /\ pc' = "p_run"
  /\ UNCHANGED <<registry, result>>
  /\ PushUnchanged

\* utils.go:93  errRun := authenticateCommand.Run()
\* (aws ecr get-login-password | docker login), run to its end.
authenticateCommand_Run ==
  /\ utilsRev = "utils.go"
  /\ pc = "p_run"
  /\ \E ok \in BOOLEAN :
       local' = [local EXCEPT !.auth = IF ok THEN "ok" ELSE "failed",
                              !.credentials = local.credentials \/ ok]
  /\ pc' = "p_wait"
  /\ UNCHANGED <<registry, result>>
  /\ PushUnchanged

\* The process started at utils.go:92 (bash -c "docker push ..."): it runs
\* on its own from the moment it is started.
pushImage_process ==
  /\ utilsRev = "utils.go"
  /\ pc \in {"p_run", "p_wait"}
  /\ local.push = "running"
  /\ \E flt \in BOOLEAN :
       LET r == DockerPush(flt)
       IN /\ registry' = r.registry
          /\ local' = [local EXCEPT !.push = IF r.exit = 0 THEN "exit0" ELSE "exit1",
                                    !.bytesSent = r.bytesSent]
  /\ UNCHANGED <<pc, result>>
  /\ PushUnchanged

\* utils.go:94-107  errWait := pushImage.Wait(), then errStart, errRun and
\* errWait are looked at in this order.
pushImage_Wait ==
  /\ utilsRev = "utils.go"
  /\ pc = "p_wait"
  /\ local.push # "running"
  /\ Return(IF local.push = "notstarted" THEN "PushFailed"
            ELSE IF local.auth = "failed" THEN "AuthenticationFailed"
            ELSE IF local.push = "exit1" THEN "PushFailed"
            ELSE "ok")
  /\ UNCHANGED <<registry, local>>
  /\ PushUnchanged

\* part_001:193-218 and part_002:138-151  GetAuthorizationToken.
GetAuthorizationToken ==
  /\ utilsRev \in {"part_001", "part_002"}
  /\ pc = "p_begin"
  /\ \E ok \in BOOLEAN :
       IF ok
       THEN /\ Goto(IF utilsRev = "part_001" THEN "p_imagepush" ELSE "p_login")
            /\ local' = IF utilsRev = "part_001"
                        THEN [local EXCEPT !.auth = "ok", !.credentials = TRUE]
                        ELSE local
       ELSE /\ Return("AuthenticationFailed")
            /\ local' = [local EXCEPT !.auth = "failed"]
  /\ UNCHANGED registry
  /\ PushUnchanged

\* part_001:220-263  cli.ImagePush with the token as RegistryAuth.
ImagePush ==
  /\ utilsRev = "part_001"
  /\ pc = "p_imagepush"
  /\ \E flt \in BOOLEAN :
       LET r == DockerPush(flt)
       IN /\ registry' = r.registry
          /\ local' = [local EXCEPT !.push = IF r.exit = 0 THEN "exit0" ELSE "exit1",
                                    !.bytesSent = r.bytesSent]
          /\ Return(IF r.exit = 0 THEN "ok" ELSE "PushFailed")
  /\ PushUnchanged

\* part_002:153-161  login.CombinedOutput()
login_CombinedOutput ==
  /\ utilsRev = "part_002"
  /\ pc = "p_login"
  /\ \E ok \in BOOLEAN :
       IF ok
       THEN /\ Goto("p_push")
            /\ local' = [local EXCEPT !.auth = "ok", !.credentials = TRUE]
       ELSE /\ Return("AuthenticationFailed")
            /\ local' = [local EXCEPT !.auth = "failed"]
  /\ UNCHANGED registry
  /\ PushUnchanged

\* part_002:163-171  push.CombinedOutput()
push_CombinedOutput ==
  /\ utilsRev = "part_002"
  /\ pc = "p_push"
  /\ \E flt \in BOOLEAN :
       LET r == DockerPush(flt)
       IN /\ registry' = r.registry
          /\ local' = [local EXCEPT !.push = IF r.exit = 0 THEN "exit0" ELSE "exit1",
                                    !.bytesSent = r.bytesSent]
          /\ Return(IF r.exit = 0 THEN "ok" ELSE "PushFailed")
  /\ PushUnchanged

PushNext ==
  \/ pushImage_Start
  \/ authenticateCommand_Run
  \/ pushImage_process
  \/ pushImage_Wait
  \/ GetAuthorizationToken
  \/ ImagePush
  \/ login_CombinedOutput
  \/ push_CombinedOutput

PushSpec == PushInit /\ [][PushNext]_vars

(***************************************************************************)
(* C20.  In pushDockerImage no image bytes go to the registry unless the   *)
(* authentication of this call has completed successfully, and a call      *)
(* whose authentication failed returns an error.                           *)
(***************************************************************************)
C20_NoUploadBeforeAuthentication ==
  op = "pushDockerImage" =>
    /\ local.bytesSent => local.auth = "ok"
    /\ (pc = "done" /\ local.auth = "failed") => Failed

----------------------------------------------------------------------------
(***************************************************************************)
(* Two resources applied in parallel by one provider process: each runs    *)
(* the build-and-push block of its handler (lines 107-129 of Create,       *)
(* 241-263 of Update) against its own repository, tag and Dockerfile       *)
(* directory; the steps of the two interleave freely.  The local Docker    *)
(* daemon (its image store) and the registry are the same for both.  Here  *)
(* dockerfile maps a directory to the bytes of its Dockerfile, and d, op,  *)
(* pc and result hold one entry per resource.                              *)
(***************************************************************************)
Resources == {"res-a", "res-b"}

ParRepos == {"repo-1", "repo-2"}

Paths == {"ctx-1", "ctx-2"}

ParRefs == {imageNameAndTag(t) : t \in Tags}
             \cup {ecrUriWithTag(rp, t) : rp \in ParRepos, t \in Tags}

\* The ResourceData of one resource: image_name is the same for both.
ParData(repo, t, path, id) ==
  [id |-> id, ecr_repository_name |-> repo, image_tag |-> t,
   dockerfile_path |-> path, dockerfile_hash |-> ""]

\* What the tag of an updated resource holds before the rebuild.
ParOldManifest == ManifestOf(ContentNames[1])

ParInit ==
  /\ utilsRev \in UtilsRevisions
  /\ dockerfile \in [Paths -> Contents]
  /\ op \in [Resources -> {"Create", "Update"}]
  /\ \E repo \in [Resources -> ParRepos], t \in [Resources -> Tags],
        path \in [Resources -> Paths] :
       /\ repo["res-a"] = "repo-1"
       /\ path["res-a"] = "ctx-1"
       /\ d = [r \in Resources |->
                 ParData(repo[r], t[r], path[r],
                         IF op[r] = "Update" THEN ParOldManifest ELSE "")]
       /\ registry = [rp \in ParRepos |->
                        [exists |-> TRUE, mutable |-> TRUE,
                         tags |-> [tg \in Tags |->
                                     IF \E r \in Resources :
                                          /\ op[r] = "Update"
                                          /\ repo[r] = rp
                                          /\ t[r] = tg
                                     THEN ParOldManifest ELSE NoTag]]]
  /\ localImages = [ref \in ParRefs |-> NoImage]
  /\ pc = [r \in Resources |-> "build"]
  /\ result = [r \in Resources |-> "running"]
  /\ state = [id |-> "", image_tag |-> TagNames[1], dockerfile_hash |-> ""]
  /\ log = <<>>
  /\ faulted = FALSE
  /\ atStart = NoStart
  /\ local = NoLocals
  /\ prev = NoCall

ParUnchanged == UNCHANGED <<utilsRev, dockerfile, op, state, log, faulted,
                            atStart, local, prev>>

ParGoto(r, next) == pc' = [pc EXCEPT ![r] = next] /\ UNCHANGED result

ParReturn(r, res) == /\ pc' = [pc EXCEPT ![r] = "done"]
                     /\ result' = [result EXCEPT ![r] = res]

\* docker build -t imageNameAndTag dockerfilePath (utils.go:56-64).
buildDockerImageAt(ref, path, flt) ==
  IF flt
  THEN [err |-> Fault, images |-> localImages]
  ELSE [err |-> Nil, images |-> [localImages EXCEPT ![ref] = ManifestOf(dockerfile[path])]]

\* Lines 108-111 / 242-245.
Par_buildDockerImage(r) ==
  /\ pc[r] = "build"
  /\ \E flt \in BOOLEAN :
       LET b == buildDockerImageAt(imageNameAndTag(d[r].image_tag),
                                   d[r].dockerfile_path, flt)
       IN /\ localImages' = b.images
          /\ IF b.err # Nil THEN ParReturn(r, "BuildFailed") ELSE ParGoto(r, "dockertag")
  /\ UNCHANGED <<registry, d>>
  /\ ParUnchanged

\* Lines 113-116 / 247-250.
Par_tagDockerImage(r) ==
  /\ pc[r] = "dockertag"
  /\ \E flt \in BOOLEAN :
       LET g == tagDockerImage(imageNameAndTag(d[r].image_tag),
                               ecrUriWithTag(d[r].ecr_repository_name, d[r].image_tag),
                               flt)
       IN /\ localImages' = g.images
          /\ IF g.err # Nil THEN ParReturn(r, "TagFailed") ELSE ParGoto(r, "push")
  /\ UNCHANGED <<registry, d>>
  /\ ParUnchanged

\* Lines 119-122 / 253-256.
Par_pushDockerImage(r) ==
  /\ pc[r] = "push"
  /\ \E authFlt \in BOOLEAN, flt \in BOOLEAN :
       LET p == pushDockerImage(ecrUriWithTag(d[r].ecr_repository_name, d[r].image_tag),
                                d[r].ecr_repository_name, d[r].image_tag, authFlt, flt)
       IN /\ registry' = p.registry
          /\ IF p.err # Nil THEN ParReturn(r, "PushFailed") ELSE ParGoto(r, "manifest")
  /\ UNCHANGED <<localImages, d>>
  /\ ParUnchanged

\* Lines 125-129 / 259-263.
Par_getImageManifest(r) ==
  /\ pc[r] = "manifest"
  /\ \E flt \in BOOLEAN :
       LET m == getImageManifest(d[r].ecr_repository_name, d[r].image_tag, flt)
       IN IF m.err # Nil
          THEN ParReturn(r, "ManifestNotFound") /\ UNCHANGED d
          ELSE ParReturn(r, "ok") /\ d' = [d EXCEPT ![r].id = m.out]
  /\ UNCHANGED <<registry, localImages>>
  /\ ParUnchanged

ParNext ==
  \E r \in Resources :
    \/ Par_buildDockerImage(r)
    \/ Par_tagDockerImage(r)
    \/ Par_pushDockerImage(r)
    \/ Par_getImageManifest(r)

ParSpec == ParInit /\ [][ParNext]_vars

ParTarget(r) == <<d[r].ecr_repository_name, d[r].image_tag>>

ParOwnManifest(r) == ManifestOf(dockerfile[d[r].dockerfile_path])

(***************************************************************************)
(* C21.  Two resources with different registry targets, their steps        *)
(* interleaved in any way: when the call of a resource returned success,   *)
(* the manifest under its tag and the id it recorded are those of the      *)
(* image built from its own Dockerfile directory, also when both use the   *)
(* same local reference image_name:image_tag.                              *)
(***************************************************************************)
C21_ParallelResourcesIsolated ==
  \A r \in Resources :
    (/\ pc[r] = "done"
     /\ result[r] = "ok"
     /\ \A o \in Resources \ {r} : ParTarget(o) # ParTarget(r))
      => /\ d[r].id = ParOwnManifest(r)
         /\ registry[d[r].ecr_repository_name].tags[d[r].image_tag] = ParOwnManifest(r)

----------------------------------------------------------------------------
(***************************************************************************)
(* C22.  A Create, or an Update that rebuilds because of content drift,    *)
(* whose ctx was cancelled while it was in pushDockerImage: the handler    *)
(* returns an error, the id is the one the call started with, and the id   *)
(* and dockerfile_hash Terraform stores are those stored before.           *)
(***************************************************************************)
C22_Case ==
  /\ InCall("Create") \/ (InCall("Update") /\ ContentDrift)
  /\ local.ctxDone
  /\ pc = "done"

C22_CancelledPushFails ==
  C22_Case =>
    /\ Failed
    /\ d.id = state.id
    /\ \A st \in Storable : /\ st.id = state.id
                            /\ st.dockerfile_hash = state.dockerfile_hash

----------------------------------------------------------------------------
\* How often the running call has issued helper fn.
TimesCalled(fn) == Cardinality({i \in 1..Len(log) : log[i].fn = fn})

SideEffectHelpers == {"buildDockerImage", "tagDockerImage", "pushDockerImage",
                      "updateImageTag", "deleteImage"}

(***************************************************************************)
(* C23.  No retries inside a handler: within one call each of              *)
(* buildDockerImage, tagDockerImage, pushDockerImage, updateImageTag and   *)
(* deleteImage is issued at most once; once a helper has failed the call   *)
(* has returned with an error; and a helper is issued only while no        *)
(* earlier helper of the call has failed.                                  *)
(***************************************************************************)
C23_NoInternalRetries ==
  /\ [](pc # "idle" =>
          /\ \A fn \in SideEffectHelpers : TimesCalled(fn) <= 1
          /\ faulted => (pc = "done" /\ Failed))
  /\ [][Len(log') > Len(log) => (result = "running" /\ ~faulted)]_vars

C23_Witness ==
  /\ InCall("Update") /\ TagChange /\ ContentDrift
  /\ pc = "done" /\ result = "PushFailed" /\ faulted
  /\ \A fn \in SideEffectHelpers : TimesCalled(fn) = 1

----------------------------------------------------------------------------
(***************************************************************************)
(* C24.  An Update that changes the tag of an image that is there: in      *)
(* every state of the call, oldTag or newTag names the manifest oldTag     *)
(* had at the start, and deleteImage(oldTag) is issued only after          *)
(* updateImageTag(newTag) has published that manifest.  Stated for the     *)
(* whole of every tag-changing Update (C24_NeverUnreferenced_AnyUpdate)    *)
(* and for the call up to the push of a rebuild, which is all of a         *)
(* tag-only Update (C24_NeverUnreferenced).                                *)
(***************************************************************************)
C24_Case ==
  /\ InCall("Update")
  /\ TagChange
  /\ StartRepo.exists
  /\ StartRepo.tags[d.oldTag] # NoTag

C24_Referenced ==
  /\ NowRepo.exists
  /\ \/ NowRepo.tags[d.oldTag] = StartRepo.tags[d.oldTag]
     \/ NowRepo.tags[d.image_tag] = StartRepo.tags[d.oldTag]

C24_PublishedBeforeDelete ==
  /\ pc = "u_delete" => NowRepo.tags[d.image_tag] = StartRepo.tags[d.oldTag]
  /\ \A j \in 1..Len(log) :
       log[j].fn = "deleteImage" =>
         /\ log[j].tag = d.oldTag
         /\ j > 1
         /\ log[j-1].fn = "updateImageTag"
         /\ log[j-1].tag = d.image_tag

C24_NeverUnreferenced_AnyUpdate ==
  C24_Case => (C24_Referenced /\ C24_PublishedBeforeDelete)

C24_NeverUnreferenced ==
  (C24_Case /\ ~Logged("pushDockerImage")) =>
     (C24_Referenced /\ C24_PublishedBeforeDelete)

C24_Witness ==
  /\ C24_Case /\ ~ContentDrift
  /\ pc = "done" /\ result = "DeleteFailed"
  /\ NowRepo.tags[d.oldTag] = StartRepo.tags[d.oldTag]
  /\ NowRepo.tags[d.image_tag] = StartRepo.tags[d.oldTag]
  /\ StartRepo.tags[d.image_tag] = NoTag

----------------------------------------------------------------------------
\* Lines 108-125: the calls of Create that have side effects, in the order
\* of the source, and the error each one ends the handler with.
CreateSideEffects == <<"buildDockerImage", "tagDockerImage", "pushDockerImage",
                       "getImageManifest">>

CreateErrorOf(fn) ==
  CASE fn = "buildDockerImage" -> "BuildFailed"
    [] fn = "tagDockerImage"   -> "TagFailed"
    [] fn = "pushDockerImage"  -> "PushFailed"
    [] fn = "getImageManifest" -> "ManifestNotFound"
    [] OTHER                   -> "none"

IsSideEffect(fn) == \E i \in 1..Len(CreateSideEffects) : CreateSideEffects[i] = fn

(***************************************************************************)
(* C25.  In Create, buildDockerImage, tagDockerImage, pushDockerImage and  *)
(* getImageManifest are issued in this order, each only after the one      *)
(* before has done its work (the image built, the image tagged, the tag    *)
(* published); when one fails Create returns that step's error and what    *)
(* the earlier steps did stays (no deleteImage, the built image and the    *)
(* pushed tag remain); the id is set only by a successful manifest fetch.  *)
(***************************************************************************)
C25_Built == localImages[imageNameAndTag(d.image_tag)] = ManifestOf(dockerfile)

C25_Tagged ==
  localImages[ecrUriWithTag(d.ecr_repository_name, d.image_tag)] = ManifestOf(dockerfile)

C25_Pushed == NowRepo.exists /\ NowRepo.tags[d.image_tag] = ManifestOf(dockerfile)

C25_CreateStepsOrdered ==
  InCall("Create") =>
    /\ IsPrefix(SelectSeq(Steps, IsSideEffect), CreateSideEffects)
    /\ Logged("tagDockerImage") => C25_Built
    /\ Logged("pushDockerImage") => (C25_Built /\ C25_Tagged)
    /\ Logged("getImageManifest") => (C25_Built /\ C25_Tagged /\ C25_Pushed)
    /\ ~Logged("deleteImage")
    /\ (pc = "done" /\ Failed /\ Len(log) > 0 /\ IsSideEffect(log[Len(log)].fn))
         => result = CreateErrorOf(log[Len(log)].fn)
    /\ d.id # "" => /\ pc = "done"
                    /\ result = "ok"
                    /\ log[Len(log)].fn = "getImageManifest"
                    /\ d.id = ManifestOf(dockerfile)

C25_Witness ==
  /\ Returned("Create") /\ result = "ManifestNotFound"
  /\ StartRepo.tags[d.image_tag] = NoTag
  /\ C25_Built /\ C25_Tagged /\ C25_Pushed
  /\ d.id = ""

----------------------------------------------------------------------------
(***************************************************************************)
(* C26.  The checks of Create come in the order daemon running,            *)
(* repository exists, tag safety, and the first one that is not met        *)
(* decides the error: with the daemon down ToolchainUnavailable; with the  *)
(* daemon up and the repository missing RepositoryNotFound (or the error   *)
(* of a registry that did not answer), whatever the Dockerfile is; with    *)
(* both met, an IMMUTABLE repository and the tag there, and every helper   *)
(* answering, ImmutableTagConflict.  In each case the registry and the     *)
(* local images are untouched, the id stays empty and the stored           *)
(* dockerfile_hash stays as it was.                                        *)
(***************************************************************************)
C26_FirstUnmet ==
  IF ~local.dockerStatus THEN {"ToolchainUnavailable"}
  ELSE IF ~StartRepo.exists THEN {"RepositoryNotFound", "RegistryUnreachable"}
  ELSE IF ~StartRepo.mutable /\ StartRepo.tags[d.image_tag] # NoTag /\ ~faulted
  THEN {"ImmutableTagConflict"}
  ELSE {}

C26_ChecksInOrder ==
  (Returned("Create") /\ C26_FirstUnmet # {}) =>
    /\ result \in C26_FirstUnmet
    /\ registry = atStart.registry
    /\ localImages = NoLocalImages
    /\ d.id = ""
    /\ \A st \in Storable : st = state

----------------------------------------------------------------------------
(***************************************************************************)
(* C27.  An Update in which only the tag changed never calls               *)
(* buildDockerImage, tagDockerImage or pushDockerImage; it calls           *)
(* updateImageTag at most once, for newTag and with the manifest fetched   *)
(* for oldTag, and deleteImage at most once, for oldTag and after the      *)
(* updateImageTag; when it returns success it has called each exactly      *)
(* once and newTag names the manifest oldTag had.                          *)
(***************************************************************************)
C27_Case == InCall("Update") /\ TagChange /\ ~ContentDrift

C27_RetagWithoutRebuild ==
  C27_Case =>
    /\ TimesCalled("buildDockerImage") = 0
    /\ TimesCalled("tagDockerImage") = 0
    /\ TimesCalled("pushDockerImage") = 0
    /\ TimesCalled("updateImageTag") <= 1
    /\ TimesCalled("deleteImage") <= TimesCalled("updateImageTag")
    /\ localImages = NoLocalImages
    /\ \A i \in 1..Len(log) :
         /\ log[i].fn = "updateImageTag" =>
              /\ log[i].tag = d.image_tag
              /\ local.imageManifest = StartRepo.tags[d.oldTag]
              /\ \A j \in 1..i : log[j].fn # "deleteImage"
         /\ log[i].fn = "deleteImage" => log[i].tag = d.oldTag
    /\ (pc = "done" /\ result = "ok") =>
         /\ TimesCalled("updateImageTag") = 1
         /\ TimesCalled("deleteImage") = 1
         /\ NowRepo.tags[d.image_tag] = StartRepo.tags[d.oldTag]
         /\ NowRepo.tags[d.image_tag] = local.imageManifest

C27_Witness ==
  /\ C27_Case /\ pc = "done" /\ result = "ok"
  /\ TimesCalled("updateImageTag") = 1 /\ TimesCalled("deleteImage") = 1
  /\ StartRepo.tags[d.image_tag] \notin {NoTag, StartRepo.tags[d.oldTag]}
  /\ NowRepo.tags[d.image_tag] = StartRepo.tags[d.oldTag]

----------------------------------------------------------------------------
\* The position of the first call of helper fn in the log (0: not called).
FirstCall(fn) ==
  IF Logged(fn) THEN CHOOSE i \in 1..Len(log) :
                       /\ log[i].fn = fn
                       /\ \A j \in 1..(i-1) : log[j].fn # fn
  ELSE 0

(***************************************************************************)
(* C28.  An Update in which both the tag and the Dockerfile hash changed:  *)
(* the rebuild starts only after updateImageTag(newTag) and                *)
(* deleteImage(oldTag) have both succeeded (oldTag gone, newTag naming     *)
(* the old manifest); build, tag and push are issued for newTag; when the  *)
(* Update returns success oldTag is absent, newTag names the image built   *)
(* from the Dockerfile, and the id is that manifest.                       *)
(***************************************************************************)
C28_Case == InCall("Update") /\ TagChange /\ ContentDrift

C28_Retagged ==
  /\ TimesCalled("updateImageTag") = 1
  /\ TimesCalled("deleteImage") = 1
  /\ FirstCall("updateImageTag") < FirstCall("deleteImage")
  /\ NowRepo.tags[d.oldTag] = NoTag

C28_RetagThenRebuild ==
  C28_Case =>
    /\ pc \in {"u_account", "u_build"} =>
         /\ C28_Retagged
         /\ NowRepo.tags[d.image_tag] = StartRepo.tags[d.oldTag]
         /\ d.id = StartRepo.tags[d.oldTag]
    /\ \A fn \in {"getAWSAccountID", "buildDockerImage", "tagDockerImage",
                  "pushDockerImage"} :
         Logged(fn) => /\ C28_Retagged
                       /\ FirstCall("deleteImage") < FirstCall(fn)
                       /\ log[FirstCall(fn)].tag \in {"", d.image_tag}
    /\ (pc = "done" /\ result = "ok") =>
         /\ C28_Retagged
         /\ Logged("pushDockerImage")
         /\ NowRepo.tags[d.image_tag] = ManifestOf(dockerfile)
         /\ d.id = ManifestOf(dockerfile)
         /\ d.image_tag # d.oldTag

C28_Witness ==
  /\ C28_Case /\ pc = "done" /\ result = "ok"
  /\ d.id = ManifestOf(dockerfile)
  /\ StartRepo.tags[d.oldTag] \notin {NoTag, d.id}
  /\ NowRepo.tags[d.oldTag] = NoTag
  /\ NowRepo.tags[d.image_tag] = d.id

----------------------------------------------------------------------------
(***************************************************************************)
(* C29.  Read changes nothing but the id: it calls none of                 *)
(* updateImageTag, deleteImage, buildDockerImage, tagDockerImage and       *)
(* pushDockerImage, the registry and the local images stay as they were,   *)
(* repository name, tag and dockerfile_hash of the resource are those it   *)
(* started with; and when repository and tag exist and the registry        *)
(* answers, it returns success with the id set to the manifest the         *)
(* registry holds for the tag.                                             *)
(***************************************************************************)
C29_ReadOnlyRefreshesId ==
  InCall("Read") =>
    /\ \A fn \in SideEffectHelpers : TimesCalled(fn) = 0
    /\ registry = atStart.registry
    /\ localImages = NoLocalImages
    /\ dockerfile = atStart.dockerfile
    /\ [d EXCEPT !.id = state.id]
         = [EmptyData EXCEPT !.id = state.id,
                             !.ecr_repository_name = RepoName,
                             !.image_tag = state.image_tag,
                             !.oldTag = state.image_tag,
                             !.dockerfile_hash = state.dockerfile_hash,
                             !.oldHash = state.dockerfile_hash]
    /\ \A st \in Storable : st.image_tag = state.image_tag
    /\ (pc = "done" /\ ~faulted /\ TagExists(d.ecr_repository_name, d.image_tag)) =>
         /\ result = "ok"
         /\ d.id = NowRepo.tags[d.image_tag]
         /\ \A st \in Storable :
              st = [id |-> NowRepo.tags[d.image_tag], image_tag |-> state.image_tag,
                    dockerfile_hash |-> state.dockerfile_hash]

C29_Witness ==
  /\ Returned("Read") /\ result = "ok"
  /\ TagExists(d.ecr_repository_name, d.image_tag)
  /\ state.id \notin {"", d.id}
  /\ d.id = NowRepo.tags[d.image_tag]

----------------------------------------------------------------------------
(***************************************************************************)
(* The Dockerfile edited by another actor while a handler runs: the hash   *)
(* is taken by getDockerfileHash (line 68 of Create, line 319 of the       *)
(* diff), the file is read again by docker build (lines 108 and 242).      *)
(***************************************************************************)
EnvEditDockerfileDuringCall ==
  /\ pc \notin {"idle", "done"}
  /\ \E c \in Contents :
       /\ c # dockerfile
       /\ dockerfile' = c
  /\ UNCHANGED <<atStart, local, utilsRev, registry, localImages, state, d, op,
                 pc, result, log, faulted, prev>>

EditNext == Next \/ EnvEditDockerfileDuringCall

EditSpec == Init /\ [][EditNext]_vars

(***************************************************************************)
(* C30.  When a Create, or an Update that rebuilt because of content       *)
(* drift, has returned success, the dockerfile_hash of the resource is     *)
(* the hash of the Dockerfile content whose image was built and pushed     *)
(* under the tag, also when the Dockerfile was edited during the call.     *)
(***************************************************************************)
C30_FingerprintOfWhatWasBuilt ==
  ((Returned("Create") \/ (Returned("Update") /\ ContentDrift)) /\ result = "ok") =>
    \E c \in Contents :
      /\ d.dockerfile_hash = Sha256Hex(c)
      /\ NowRepo.tags[d.image_tag] = ManifestOf(c)
      /\ d.id = ManifestOf(c)

----------------------------------------------------------------------------
(***************************************************************************)
(* The references of the build-and-push block (lines 57 and 98-119 of      *)
(* Create, 184 and 233-253 of Update) as functions of the attributes of    *)
(* the call, the region of the provider and the account id that            *)
(* getAWSAccountID returned.  fmt.Sprintf with %s verbs is concatenation.  *)
(* Here d holds the attributes of the call, local the region and the       *)
(* account id, and log the helper calls with their arguments.              *)
(***************************************************************************)
Sprintf_imageNameAndTag(imageName, imageTag) == imageName \o ":" \o imageTag

Sprintf_ecrUri(awsAccountId, awsRegion) ==
  awsAccountId \o ".dkr.ecr." \o awsRegion \o ".amazonaws.com"

Sprintf_ecrUriWithRepo(uri, repoName) == uri \o "/" \o repoName

\* A reference that always carries the tag latest.
Sprintf_ecrUriWithTag_latest(uriWithRepo, imageTag) == uriWithRepo \o ":" \o "latest"

Sprintf_ecrUriWithTag(uriWithRepo, imageTag) == uriWithRepo \o ":" \o imageTag

RefAccounts == {"111111111111", "222222222222"}

RefRegions == {"eu-central-1", "us-east-1"}

RefRepos == {"repo-1", "repo-2"}

RefImageNames == {"promtail", "loki"}

RefInit ==
  /\ utilsRev \in UtilsRevisions
  /\ op \in {"Create", "Update"}
  /\ \E repo \in RefRepos, name \in RefImageNames, t \in Tags, old \in Tags :
       /\ op = "Create" => old = t
       /\ d = [ecr_repository_name |-> repo, image_name |-> name, image_tag |-> t,
               oldTag |-> old]
  /\ \E region \in RefRegions : local = [awsRegion |-> region, awsAccountId |-> ""]
  /\ pc = "ref_account"
  /\ result = "running"
  /\ log = <<>>
  /\ registry = NoStart.registry
  /\ dockerfile = ContentNames[1]
  /\ localImages = NoLocalImages
  /\ state = [id |-> "", image_tag |-> TagNames[1], dockerfile_hash |-> ""]
  /\ faulted = FALSE
  /\ atStart = NoStart
  /\ prev = NoCall

RefUnchanged == UNCHANGED <<utilsRev, registry, dockerfile, localImages, state, d, op,
                            faulted, atStart, prev>>

RefCall(fn, args) == log' = Append(log, [fn |-> fn, args |-> args])

\* The locals of lines 57, 103-105 (184, 237-239).
Ref_imageNameAndTag == Sprintf_imageNameAndTag(d.image_name, d.image_tag)

Ref_ecrUri == Sprintf_ecrUri(local.awsAccountId, local.awsRegion)

Ref_ecrUriWithRepo == Sprintf_ecrUriWithRepo(Ref_ecrUri, d.ecr_repository_name)

Ref_ecrUriWithTag == Sprintf_ecrUriWithTag(Ref_ecrUriWithRepo, d.image_tag)

\* Lines 99-102 / 233-236.
Ref_getAWSAccountID ==
  /\ pc = "ref_account"
  /\ \E flt \in BOOLEAN, acct \in RefAccounts :
       /\ RefCall("getAWSAccountID", <<>>)
       /\ IF flt THEN Return("RegistryUnreachable") /\ UNCHANGED local
          ELSE Goto("ref_build") /\ local' = [local EXCEPT !.awsAccountId = acct]
  /\ RefUnchanged

\* Lines 108-111 / 242-245.
Ref_buildDockerImage ==
  /\ pc = "ref_build"
  /\ RefCall("buildDockerImage", <<Ref_imageNameAndTag>>)
  /\ \E flt \in BOOLEAN : IF flt THEN Return("BuildFailed") ELSE Goto("ref_dockertag")
  /\ UNCHANGED local
  /\ RefUnchanged

\* Lines 113-116 / 247-250.
Ref_tagDockerImage ==
  /\ pc = "ref_dockertag"
  /\ RefCall("tagDockerImage", <<Ref_imageNameAndTag, Ref_ecrUriWithTag>>)
  /\ \E flt \in BOOLEAN : IF flt THEN Return("TagFailed") ELSE Goto("ref_push")
  /\ UNCHANGED local
  /\ RefUnchanged

\* Lines 119-122 / 253-256.
Ref_pushDockerImage ==
  /\ pc = "ref_push"
  /\ RefCall("pushDockerImage", <<Ref_ecrUriWithTag, local.awsRegion, Ref_ecrUri>>)
  /\ \E flt \in BOOLEAN : IF flt THEN Return("PushFailed") ELSE Return("ok")
  /\ UNCHANGED local
  /\ RefUnchanged

RefNext ==
  \/ Ref_getAWSAccountID
  \/ Ref_buildDockerImage
  \/ Ref_tagDockerImage
  \/ Ref_pushDockerImage

RefSpec == RefInit /\ [][RefNext]_vars

(***************************************************************************)
(* C31.  In the build-and-push block of Create and of Update the image is  *)
(* built as image_name:image_tag; tagDockerImage gets that reference and   *)
(* <account>.dkr.ecr.<region>.amazonaws.com/<repository>:<image_tag>;      *)
(* pushDockerImage gets the same remote reference, the region of the       *)
(* provider, and as registry host the remote reference without             *)
(* /<repository>:<image_tag>; repository and tag are those of the call     *)
(* (for Update the new tag).                                               *)
(***************************************************************************)
C31_LocalRef == d.image_name \o ":" \o d.image_tag

C31_Host == local.awsAccountId \o ".dkr.ecr." \o local.awsRegion \o ".amazonaws.com"

C31_RemoteRef == C31_Host \o "/" \o d.ecr_repository_name \o ":" \o d.image_tag

C31_ReferencesWellFormed ==
  op \in {"Create", "Update"} =>
    \A i \in 1..Len(log) :
      /\ log[i].fn = "buildDockerImage" => log[i].args = <<C31_LocalRef>>
      /\ log[i].fn = "tagDockerImage" => log[i].args = <<C31_LocalRef, C31_RemoteRef>>
      /\ log[i].fn = "pushDockerImage" =>
           /\ log[i].args = <<C31_RemoteRef, local.awsRegion, C31_Host>>
           /\ log[i].args[1] = log[i-1].args[2]
           /\ log[i].args[1]
                = log[i].args[3] \o "/" \o d.ecr_repository_name \o ":" \o d.image_tag

C31_Witness ==
  /\ op = "Update" /\ pc = "done" /\ result = "ok"
  /\ d.oldTag # d.image_tag
  /\ Len(log) = 4
  /\ log[4].fn = "pushDockerImage"
  /\ log[4].args[1] = C31_RemoteRef

----------------------------------------------------------------------------
(***************************************************************************)
(* getDockerfileHash on its own (utils.go:201-211), over two build         *)
(* context directories that each hold a Dockerfile and one other file.     *)
(* Here dockerfile is the file system, a map from file path to bytes, and  *)
(* log records each computation: the directory, the bytes of its two       *)
(* files at that moment, and what the function returned.                   *)
(***************************************************************************)
MaxHashes == 2

OtherFile == "app.py"

\* filepath.Join(dir, name)
Join(dir, name) == dir \o "/" \o name

FilePaths == {Join(p, f) : p \in Paths, f \in {"Dockerfile", OtherFile}}

\* A fingerprint taken over every file of the directory.
getDockerfileHashAt_wholeContext(dockerfilePath, flt) ==
  IF flt THEN [out |-> "", err |-> Fault]
  ELSE [out |-> Sha256Hex(dockerfile[Join(dockerfilePath, "Dockerfile")]
                            \o dockerfile[Join(dockerfilePath, OtherFile)]),
        err |-> Nil]

\* os.ReadFile(filepath.Join(dockerfilePath, "Dockerfile")), sha256, hex.
getDockerfileHashAt(dockerfilePath, flt) ==
  IF flt THEN [out |-> "", err |-> Fault]
  ELSE [out |-> Sha256Hex(dockerfile[Join(dockerfilePath, "Dockerfile")]), err |-> Nil]

HashInit ==
  /\ utilsRev \in UtilsRevisions
  /\ dockerfile \in [FilePaths -> Contents]
  /\ log = <<>>
  /\ op = "getDockerfileHash"
  /\ pc = "hash"
  /\ result = "running"
  /\ registry = NoStart.registry
  /\ localImages = NoLocalImages
  /\ state = [id |-> "", image_tag |-> TagNames[1], dockerfile_hash |-> ""]
  /\ d = EmptyData
  /\ faulted = FALSE
  /\ atStart = NoStart
  /\ local = NoLocals
  /\ prev = NoCall

HashUnchanged == UNCHANGED <<utilsRev, registry, localImages, state, d, op, pc, result,
                             faulted, atStart, local, prev>>

Hash_getDockerfileHash ==
  /\ Len(log) < MaxHashes
  /\ \E p \in Paths, flt \in BOOLEAN :
       LET r == getDockerfileHashAt(p, flt)
       IN log' = Append(log, [path |-> p,
                              bytes |-> IF flt THEN "" ELSE dockerfile[Join(p, "Dockerfile")],
                              others |-> IF flt THEN "" ELSE dockerfile[Join(p, OtherFile)],
                              out |-> r.out, err |-> r.err])
  /\ UNCHANGED dockerfile
  /\ HashUnchanged

\* Another actor rewrites the Dockerfile of a directory.
Hash_editDockerfile ==
  /\ \E p \in Paths, c \in Contents :
       /\ dockerfile[Join(p, "Dockerfile")] # c
       /\ dockerfile' = [dockerfile EXCEPT ![Join(p, "Dockerfile")] = c]
  /\ UNCHANGED log
  /\ HashUnchanged

\* Another actor rewrites the other file of a directory.
Hash_editOtherFile ==
  /\ \E p \in Paths, c \in Contents :
       /\ dockerfile[Join(p, OtherFile)] # c
       /\ dockerfile' = [dockerfile EXCEPT ![Join(p, OtherFile)] = c]
  /\ UNCHANGED log
  /\ HashUnchanged

HashNext ==
  \/ Hash_getDockerfileHash
  \/ Hash_editDockerfile
  \/ Hash_editOtherFile

HashSpec == HashInit /\ [][HashNext]_vars

----------------------------------------------------------------------------
(***************************************************************************)
(* C33.  An Update that changes only the tag, on a MUTABLE repository in   *)
(* which oldTag exists and newTag exists with another manifest, every      *)
(* helper answering: Update returns success, newTag then names the         *)
(* manifest oldTag had (its former manifest is no longer under newTag),    *)
(* oldTag is gone and the id is that manifest.  When the Dockerfile hash   *)
(* changed too, the same holds at the moment the retag is done.            *)
(***************************************************************************)
C33_Case ==
  /\ InCall("Update")
  /\ TagChange
  /\ StartRepo.exists
  /\ StartRepo.mutable
  /\ StartRepo.tags[d.oldTag] # NoTag
  /\ StartRepo.tags[d.image_tag] \notin {NoTag, StartRepo.tags[d.oldTag]}
  /\ ~faulted

C33_Overwritten ==
  /\ NowRepo.tags[d.image_tag] = StartRepo.tags[d.oldTag]
  /\ NowRepo.tags[d.image_tag] # StartRepo.tags[d.image_tag]
  /\ NowRepo.tags[d.oldTag] = NoTag
  /\ d.id = StartRepo.tags[d.oldTag]

C33_MutableRetagOverwrites ==
  C33_Case =>
    /\ (pc = "done" /\ ~ContentDrift) => (result = "ok" /\ C33_Overwritten)
    /\ (pc = "u_account" /\ ContentDrift) => C33_Overwritten
    /\ (pc = "done" /\ ContentDrift) => Logged("deleteImage")

C33_Witness ==
  /\ C33_Case /\ ~ContentDrift /\ pc = "done" /\ result = "ok"
  /\ C33_Overwritten
  /\ Logged("updateImageTag")

----------------------------------------------------------------------------
(***************************************************************************)
(* A resource whose ecr_repository_name and image_name may be edited in    *)
(* the configuration.  Neither attribute is ForceNew (schema, lines 19-23  *)
(* and 30-34), so Terraform answers such an edit with an Update, and       *)
(* stores the new values once Update returned.  The resource starts as one *)
(* that was created in "repo-1"; a second repository may exist and may     *)
(* already hold the tag.                                                   *)
(***************************************************************************)
ImageNames == {"promtail", "loki"}

RenameData(repo, name, id, newTag, oldTag, hash) ==
  [id |-> id, ecr_repository_name |-> repo, image_name |-> name,
   image_tag |-> newTag, oldTag |-> oldTag,
   dockerfile_hash |-> hash, oldHash |-> hash, requiresNew |-> FALSE]

RenameNoLocalImages == [r \in ParRefs |-> NoImage]

RenameNoStart == [registry |-> [r \in ParRepos |-> [exists |-> FALSE, mutable |-> FALSE,
                                                     tags |-> EmptyTags]],
                  dockerfile |-> ""]

RenameInit ==
  /\ utilsRev \in UtilsRevisions
  /\ dockerfile \in Contents
  /\ \E t \in Tags, m1 \in BOOLEAN, e2 \in BOOLEAN, m2 \in BOOLEAN,
        other \in {NoTag} \cup Manifests :
       /\ registry = [rp \in ParRepos |->
                        IF rp = RepoName
                        THEN [exists |-> TRUE, mutable |-> m1,
                              tags |-> [EmptyTags EXCEPT ![t] = ManifestOf(dockerfile)]]
                        ELSE [exists |-> e2, mutable |-> m2,
                              tags |-> [EmptyTags EXCEPT ![t] = IF e2 THEN other ELSE NoTag]]]
       /\ state = [id |-> ManifestOf(dockerfile), ecr_repository_name |-> RepoName,
                   image_name |-> ImageName, image_tag |-> t,
                   dockerfile_hash |-> Sha256Hex(dockerfile)]
  /\ localImages = RenameNoLocalImages
  /\ d = EmptyData
  /\ op = "none"
  /\ pc = "idle"
  /\ result = "none"
  /\ log = <<>>
  /\ faulted = FALSE
  /\ atStart = RenameNoStart
  /\ local = NoLocals
  /\ prev = NoCall

\* terraform apply after the repository name or the image name was edited in
\* the configuration, the tag and the Dockerfile being what they were.
Rename_StartUpdate(repo, name) ==
  /\ state.id # ""
  /\ repo # state.ecr_repository_name \/ name # state.image_name
  /\ Begin("Update", RenameData(repo, name, state.id, state.image_tag, state.image_tag,
                                state.dockerfile_hash), "diff")

\* terraform refresh: Read gets what is stored.
Rename_StartRead ==
  /\ state.id # ""
  /\ Begin("Read", RenameData(state.ecr_repository_name, state.image_name, state.id,
                              state.image_tag, state.image_tag,
                              state.dockerfile_hash), "r_repo")

\* What Terraform stores once the handler returned: nothing new after a
\* failed plan; the ResourceData the handler left otherwise (after a failed
\* Update the engine may keep what it had stored before).
Rename_Persisted(full) ==
  IF result = "PlanFailed" \/ ~full
  THEN state
  ELSE [id |-> d.id, ecr_repository_name |-> d.ecr_repository_name,
        image_name |-> d.image_name, image_tag |-> d.image_tag,
        dockerfile_hash |-> d.dockerfile_hash]

Rename_Commit ==
  /\ pc = "done"
  /\ \E full \in BOOLEAN :
       /\ ~full => (op = "Update" /\ result # "ok")
       /\ state' = Rename_Persisted(full)
  /\ pc' = "idle"
  /\ localImages' = RenameNoLocalImages
  /\ d' = EmptyData
  /\ op' = "none"
  /\ result' = "none"
  /\ log' = <<>>
  /\ faulted' = FALSE
  /\ local' = NoLocals
  /\ atStart' = RenameNoStart
  /\ prev' = NoCall
  /\ UNCHANGED <<utilsRev, registry, dockerfile>>

\* Of resourcePushImageUpdate only the step that tests HasChange is listed:
\* it decides whether any other step of the handler is taken.
RenameNext ==
  \/ \E repo \in ParRepos, name \in ImageNames : Rename_StartUpdate(repo, name)
  \/ Rename_StartRead
  \/ Rename_Commit
  \/ customizeDiffForDockerfileChanges
  \/ Update_begin
  \/ resourcePushImageRead

RenameSpec == RenameInit /\ [][RenameNext]_vars

\* The Update in progress was asked for a new repository name or image name
\* only: the tag and the Dockerfile hash are the stored ones.
RenameOnly ==
  /\ InCall("Update")
  /\ ~TagChange
  /\ ~ContentDrift
  /\ \/ d.ecr_repository_name # state.ecr_repository_name
     \/ d.image_name # state.image_name

(***************************************************************************)
(* C34.  An Update in which only ecr_repository_name or image_name changed *)
(* makes no registry or toolchain call and returns success: the registry   *)
(* is as it was, so the image is still under its tag in the repository it  *)
(* was pushed to and was not created in the newly named one.  A Read of a  *)
(* resource whose repository exists and does not hold the tag, the         *)
(* registry answering, then returns success with the id cleared.           *)
(***************************************************************************)
C34_UpdateDoesNothing ==
  RenameOnly =>
    /\ log = <<>>
    /\ pc \in {"u_begin", "done"}
    /\ registry = atStart.registry
    /\ localImages = RenameNoLocalImages
    /\ d.id = state.id
    /\ pc = "done" => result = "ok"

C34_ReadClearsId ==
  ( /\ Returned("Read")
    /\ StartRepo.exists
    /\ StartRepo.tags[d.image_tag] = NoTag
    /\ ~faulted )
  => /\ result = "ok"
     /\ d.id = ""
     /\ registry = atStart.registry

C34_RenameOnlyUpdateIsNoOp == op \in {"none", "Update", "Read"} =>
  C34_UpdateDoesNothing /\ C34_ReadClearsId

\* A rename to "repo-2" was stored, the image is still in "repo-1" only,
\* and the Read that followed has cleared the id.
C34_Witness ==
  /\ Returned("Read")
  /\ ~faulted
  /\ result = "ok"
  /\ d.id = ""
  /\ state.id # ""
  /\ d.ecr_repository_name = "repo-2"
  /\ StartRepo.exists
  /\ registry["repo-2"].tags = EmptyTags
  /\ registry[RepoName].tags[d.image_tag] = state.id

C34_WitnessUpdate ==
  /\ RenameOnly
  /\ pc = "done"
  /\ result = "ok"
  /\ d.ecr_repository_name = "repo-2"
  /\ registry[RepoName].tags[d.image_tag] = d.id
  /\ registry["repo-2"].tags[d.image_tag] = NoTag

----------------------------------------------------------------------------
(***************************************************************************)
(* Create and nothing else: terraform apply of a resource that is not in   *)
(* the state, run again after each failure.  Nobody else touches the       *)
(* registry or the Dockerfile, so a tag found in the repository was put    *)
(* there by an earlier attempt of the same Create.                         *)
(***************************************************************************)
RetryNext ==
  \/ \E t \in Tags : StartCreate(t)
  \/ Commit
  \/ customizeDiffForDockerfileChanges
  \/ resourcePushImageCreate

RetrySpec == Init /\ [][RetryNext]_vars

\* An earlier attempt of this Create has left the tag in the repository.
PushedByEarlierAttempt == StartRepo.tags[d.image_tag] # NoTag

(***************************************************************************)
(* C35.  A Create that finds the Docker daemon running and the repository  *)
(* present, and whose helpers all succeed, returns success with the id     *)
(* set, whatever an earlier failed attempt of the same Create has left     *)
(* behind, on MUTABLE and on IMMUTABLE repositories.                       *)
(***************************************************************************)
C35_RetriedCreateSucceeds ==
  ( /\ Returned("Create")
    /\ local.dockerStatus
    /\ StartRepo.exists
    /\ ~faulted )
  => (result = "ok" /\ d.id # "")

\* The part of C35 that the code keeps: the retry on a MUTABLE repository,
\* and the retry of an attempt that had not pushed yet.
C35_RetrySucceedsUnlessPushedImmutable ==
  ( /\ Returned("Create")
    /\ local.dockerStatus
    /\ StartRepo.exists
    /\ ~faulted
    /\ StartRepo.mutable \/ ~PushedByEarlierAttempt )
  => (result = "ok" /\ d.id = ManifestOf(dockerfile))

=============================================================================
